---------------------------- MODULE Spec2Model ----------------------------
(***************************************************************************)
(* A model of Eyevinn/audio-qc: AudioQC.analyze (index.ts) together with   *)
(* the collaborators it drives: S3Downloader, ContainerDetector,           *)
(* FFmpegAnalyzer/FFmpegUtils, ComplianceChecker, S3Uploader, and the      *)
(* StreamingAnalyzer format classifier.                                    *)
(*                                                                         *)
(* Strings of the program are sequences of one-character strings, so that  *)
(* the regular expressions, split/basename/extname and the formatting of   *)
(* the temporary file name are computed, not assumed.                      *)
(***************************************************************************)
EXTENDS Integers, Sequences, FiniteSets, TLC

(***************************************************************************)
(* Bounds of the model.                                                    *)
(***************************************************************************)
\* Date.now() takes the values 0..MaxClock (an offset from the epoch).
MaxClock == 1

(***************************************************************************)
(* String helpers (JavaScript String / RegExp primitives).                 *)
(***************************************************************************)
UpperChars == <<"A","B","C","D","E","F","G","H","I","J","K","L","M","N","O","P","Q","R","S","T","U","V","W","X","Y","Z">>
LowerChars == <<"a","b","c","d","e","f","g","h","i","j","k","l","m","n","o","p","q","r","s","t","u","v","w","x","y","z">>

\* String.prototype.toLowerCase on one character
ToLowerChar(c) ==
    IF \E i \in 1..Len(UpperChars) : UpperChars[i] = c
    THEN LowerChars[CHOOSE i \in 1..Len(UpperChars) : UpperChars[i] = c]
    ELSE c

\* String.prototype.toLowerCase
ToLower(s) == [i \in 1..Len(s) |-> ToLowerChar(s[i])]

\* p occurs in s at position i (1-based)
MatchAt(s, i, p) ==
    /\ i >= 1
    /\ i + Len(p) - 1 <= Len(s)
    /\ \A k \in 1..Len(p) : s[i + k - 1] = p[k]

\* String.prototype.startsWith
StartsWith(s, p) == MatchAt(s, 1, p)

\* String.prototype.includes
Includes(s, p) == \E i \in 1..(Len(s) + 1) : MatchAt(s, i, p)

\* String.prototype.indexOf, 1-based; 0 when absent
IndexOf(s, p) ==
    IF Includes(s, p)
    THEN CHOOSE i \in 1..(Len(s) + 1) :
            /\ MatchAt(s, i, p)
            /\ \A j \in 1..(i - 1) : ~MatchAt(s, j, p)
    ELSE 0

\* String.prototype.lastIndexOf of one character, 1-based; 0 when absent
LastIndexOfChar(s, c) ==
    IF \E i \in 1..Len(s) : s[i] = c
    THEN CHOOSE i \in 1..Len(s) : s[i] = c /\ \A j \in (i + 1)..Len(s) : s[j] # c
    ELSE 0

\* s.substring(i - 1): the suffix of s starting at 1-based position i
From(s, i) == SubSeq(s, i, Len(s))

\* s.split(c)[0]
BeforeFirst(s, c) ==
    IF IndexOf(s, <<c>>) = 0 THEN s ELSE SubSeq(s, 1, IndexOf(s, <<c>>) - 1)

\* String(n) for a non-negative integer
RECURSIVE Digits(_)
Digits(n) ==
    LET d == <<"0","1","2","3","4","5","6","7","8","9">>[(n % 10) + 1]
    IN  IF n < 10 THEN <<d>> ELSE Digits(n \div 10) \o <<d>>

(***************************************************************************)
(* Literals of the program.                                                *)
(***************************************************************************)
S3Scheme == <<"s","3",":","/","/">>
HttpScheme == <<"h","t","t","p",":","/","/">>
HttpsScheme == <<"h","t","t","p","s",":","/","/">>
AmazonSuffix == <<".","a","m","a","z","o","n","a","w","s",".","c","o","m">>
SigParam == <<"X","-","A","m","z","-","S","i","g","n","a","t","u","r","e">>
KeyIdParam == <<"A","W","S","A","c","c","e","s","s","K","e","y","I","d">>
DefaultFileName == <<"d","o","w","n","l","o","a","d","e","d","-","f","i","l","e">>
\* path.join(tempDir, "audio-qc-"), with tempDir = os.tmpdir() = "/tmp"
TmpPrefix == <<"/","t","m","p","/","a","u","d","i","o","-","q","c","-">>

(***************************************************************************)
(* path.basename / path.extname (POSIX).                                   *)
(***************************************************************************)
RECURSIVE StripTrailingSlashes(_)
StripTrailingSlashes(p) ==
    IF Len(p) > 0 /\ p[Len(p)] = "/"
    THEN StripTrailingSlashes(SubSeq(p, 1, Len(p) - 1))
    ELSE p

basename(p) ==
    LET q == StripTrailingSlashes(p)
    IN  From(q, LastIndexOfChar(q, "/") + 1)

extname(p) ==
    LET b == basename(p)
        i == LastIndexOfChar(b, ".")
    IN  IF i <= 1 THEN <<>> ELSE From(b, i)

(***************************************************************************)
(* S3Downloader.isS3Url: four case-insensitive regular expressions.        *)
(***************************************************************************)
\* ^https?:\/\/ on the lower-cased string; the position after it, or 0
AfterHttpScheme(l) ==
    IF StartsWith(l, HttpsScheme) THEN Len(HttpsScheme) + 1
    ELSE IF StartsWith(l, HttpScheme) THEN Len(HttpScheme) + 1
    ELSE 0

\* .*\.amazonaws\.com somewhere at or after position i
AmazonFrom(l, i) == \E j \in i..Len(l) : MatchAt(l, j, AmazonSuffix)

\* a check that takes every input for an S3 URL
isS3UrlAnyInput(url) == TRUE

isS3Url(url) ==
    LET l == ToLower(url)
        h == AfterHttpScheme(l)
    IN  \/ StartsWith(l, S3Scheme)
        \* ^https?:\/\/.*\.s3[.-].*\.amazonaws\.com
        \/ /\ h > 0
           /\ \E i \in h..Len(l) :
                 /\ MatchAt(l, i, <<".","s","3",".">>) \/ MatchAt(l, i, <<".","s","3","-">>)
                 /\ AmazonFrom(l, i + 4)
        \* ^https?:\/\/s3[.-].*\.amazonaws\.com
        \/ /\ h > 0
           /\ MatchAt(l, h, <<"s","3",".">>) \/ MatchAt(l, h, <<"s","3","-">>)
           /\ AmazonFrom(l, h + 3)
        \* ^https?:\/\/.*\.s3\..*\.amazonaws\.com
        \/ /\ h > 0
           /\ \E i \in h..Len(l) :
                 /\ MatchAt(l, i, <<".","s","3",".">>)
                 /\ AmazonFrom(l, i + 4)

(***************************************************************************)
(* new URL(url): hostname, pathname and the names of the search params.    *)
(***************************************************************************)
\* position of the first character of s at or after i that is in cs; Len(s)+1 if none
FirstOf(s, i, cs) ==
    IF \E k \in i..Len(s) : s[k] \in cs
    THEN CHOOSE k \in i..Len(s) : s[k] \in cs /\ \A j \in i..(k - 1) : s[j] \notin cs
    ELSE Len(s) + 1

UrlParts(url) ==
    LET c == IndexOf(url, <<":","/","/">>)
        hs == c + 3
        he == FirstOf(url, hs, {"/", "?", "#"})
        pe == FirstOf(url, he, {"?", "#"})
        qe == FirstOf(url, pe, {"#"})
        special == AfterHttpScheme(ToLower(url)) > 0
        host == SubSeq(url, hs, he - 1)
    IN  [valid |-> c > 1,
         hostname |-> IF special THEN ToLower(host) ELSE host,
         pathname |-> IF pe > he THEN SubSeq(url, he, pe - 1)
                      ELSE IF special THEN <<"/">> ELSE <<>>,
         search |-> IF qe > pe THEN SubSeq(url, pe + 1, qe - 1) ELSE <<>>]

\* URLSearchParams.has(name): some '&'-separated pair has this name
RECURSIVE SearchHas(_, _)
SearchHas(q, name) ==
    IF Len(q) = 0 THEN FALSE
    ELSE LET e == FirstOf(q, 1, {"&"})
             pair == SubSeq(q, 1, e - 1)
         IN  \/ Len(pair) > 0 /\ BeforeFirst(pair, "=") = name
             \/ e <= Len(q) /\ SearchHas(From(q, e + 1), name)

(***************************************************************************)
(* S3Downloader.parseS3Url; ok = FALSE stands for the thrown Error.        *)
(***************************************************************************)
ParseThrows == [ok |-> FALSE, bucket |-> <<>>, key |-> <<>>, isPresigned |-> FALSE]

parseS3Url(url) ==
    IF StartsWith(url, S3Scheme)
    THEN \* ^s3:\/\/([^\/]+)\/(.+)$
         LET rest == From(url, Len(S3Scheme) + 1)
             s == IndexOf(rest, <<"/">>)
         IN  IF s > 1 /\ s < Len(rest)
             THEN [ok |-> TRUE, bucket |-> SubSeq(rest, 1, s - 1),
                   key |-> From(rest, s + 1), isPresigned |-> FALSE]
             ELSE ParseThrows
    ELSE LET u == UrlParts(url)
             presigned == SearchHas(u.search, SigParam) \/ SearchHas(u.search, KeyIdParam)
             path1 == From(u.pathname, 2)
         IN  IF ~u.valid THEN ParseThrows
             ELSE IF Includes(u.hostname, <<".","s","3",".">>) \/ Includes(u.hostname, <<".","s","3","-">>)
             THEN [ok |-> TRUE, bucket |-> BeforeFirst(u.hostname, "."),
                   key |-> path1, isPresigned |-> presigned]
             ELSE IF StartsWith(u.hostname, <<"s","3",".">>) \/ StartsWith(u.hostname, <<"s","3","-">>)
             THEN [ok |-> TRUE, bucket |-> BeforeFirst(path1, "/"),
                   key |-> IF IndexOf(path1, <<"/">>) = 0 THEN <<>>
                           ELSE From(path1, IndexOf(path1, <<"/">>) + 1),
                   isPresigned |-> presigned]
             ELSE ParseThrows

\* S3Downloader.downloadFile: the temporary path chosen at time now
TempPath(key, now) ==
    LET fileName == IF Len(basename(key)) = 0 THEN DefaultFileName ELSE basename(key)
    IN  TmpPrefix \o Digits(now) \o <<"-">> \o fileName

(***************************************************************************)
(* StreamingAnalyzer: the format classifier.                               *)
(***************************************************************************)
\* capability.reason of an entry without one (undefined)
NoReason == "undefined"

\* STREAMABLE_FORMATS: extension -> table entry
STREAMABLE_FORMATS ==
    { [ext |-> <<"m","p","4">>, confidence |-> "high", canStream |-> TRUE, reason |-> NoReason],
      [ext |-> <<"m","o","v">>, confidence |-> "high", canStream |-> TRUE, reason |-> NoReason],
      [ext |-> <<"m","4","v">>, confidence |-> "high", canStream |-> TRUE, reason |-> NoReason],
      [ext |-> <<"t","s">>, confidence |-> "high", canStream |-> TRUE, reason |-> NoReason],
      [ext |-> <<"m","2","t","s">>, confidence |-> "high", canStream |-> TRUE, reason |-> NoReason],
      [ext |-> <<"w","e","b","m">>, confidence |-> "high", canStream |-> TRUE, reason |-> NoReason],
      [ext |-> <<"m","x","f">>, confidence |-> "medium", canStream |-> TRUE, reason |-> NoReason],
      [ext |-> <<"m","k","v">>, confidence |-> "medium", canStream |-> TRUE, reason |-> NoReason],
      [ext |-> <<"3","g","p">>, confidence |-> "medium", canStream |-> TRUE, reason |-> NoReason],
      [ext |-> <<"a","v","i">>, confidence |-> "low", canStream |-> FALSE, reason |-> "index usually at end"],
      [ext |-> <<"w","m","v">>, confidence |-> "low", canStream |-> FALSE, reason |-> "poor streaming support"],
      [ext |-> <<"f","l","v">>, confidence |-> "low", canStream |-> FALSE, reason |-> "metadata at end"],
      [ext |-> <<"r","m">>, confidence |-> "low", canStream |-> FALSE, reason |-> "proprietary format"],
      [ext |-> <<"r","m","v","b">>, confidence |-> "low", canStream |-> FALSE, reason |-> "variable bitrate issues"] }

\* extractExtension keeping the query string
extractExtensionKeepingQuery(url) ==
    LET i == LastIndexOfChar(url, ".")
    IN  IF i = 0 THEN <<>> ELSE From(url, i + 1)

\* StreamingAnalyzer.extractExtension
extractExtension(url) ==
    LET urlPath == BeforeFirst(url, "?")
        i == LastIndexOfChar(urlPath, ".")
    IN  IF i = 0 THEN <<>> ELSE From(urlPath, i + 1)

\* getStreamingCapability looking the extension up as written
getStreamingCapabilityCaseSensitive(url) ==
    LET extension == extractExtension(url)
        hits == {e \in STREAMABLE_FORMATS : e.ext = extension}
    IN  IF hits = {}
        THEN [canStream |-> FALSE, format |-> extension, confidence |-> "low",
              fallbackReason |-> "Unknown format streaming capability"]
        ELSE LET capability == CHOOSE e \in hits : TRUE
             IN  [canStream |-> capability.canStream, format |-> extension,
                  confidence |-> capability.confidence,
                  fallbackReason |-> capability.reason]

\* getStreamingCapability giving an unknown extension the benefit of the doubt
getStreamingCapabilityUnknownStreams(url) ==
    LET extension == extractExtension(url)
        hits == {e \in STREAMABLE_FORMATS : e.ext = ToLower(extension)}
    IN  IF hits = {}
        THEN [canStream |-> TRUE, format |-> extension, confidence |-> "low",
              fallbackReason |-> "Unknown format streaming capability"]
        ELSE LET capability == CHOOSE e \in hits : TRUE
             IN  [canStream |-> capability.canStream, format |-> extension,
                  confidence |-> capability.confidence,
                  fallbackReason |-> capability.reason]

\* StreamingAnalyzer.getStreamingCapability
getStreamingCapability(url) ==
    LET extension == extractExtension(url)
        hits == {e \in STREAMABLE_FORMATS : e.ext = ToLower(extension)}
    IN  IF hits = {}
        THEN [canStream |-> FALSE, format |-> extension, confidence |-> "low",
              fallbackReason |-> "Unknown format streaming capability"]
        ELSE LET capability == CHOOSE e \in hits : TRUE
             IN  [canStream |-> capability.canStream, format |-> extension,
                  confidence |-> capability.confidence,
                  fallbackReason |-> capability.reason]

(***************************************************************************)
(* ContainerDetector.isVideoContainer.                                     *)
(***************************************************************************)
VIDEO_CONTAINER_EXTENSIONS ==
    { <<".","m","p","4">>,
      <<".","m","o","v">>,
      <<".","a","v","i">>,
      <<".","m","k","v">>,
      <<".","w","e","b","m">>,
      <<".","f","l","v">>,
      <<".","w","m","v">>,
      <<".","m","4","v">>,
      <<".","m","x","f">>,
      <<".","t","s">>,
      <<".","m","2","t","s">>,
      <<".","v","o","b">>,
      <<".","3","g","p">>,
      <<".","a","s","f">>,
      <<".","r","m">>,
      <<".","r","m","v","b">> }

isVideoContainer(filePath) == ToLower(extname(filePath)) \in VIDEO_CONTAINER_EXTENSIONS

(***************************************************************************)
(* The input locators of the model.                                        *)
(***************************************************************************)
\* s3://b/a.mp4: an s3:// object, a streamable video container
LocS3Mp4 == <<"s","3",":","/","/","b","/","a",".","m","p","4">>
\* s3://b/a.wav: an s3:// object, plain audio
LocS3Wav == <<"s","3",":","/","/","b","/","a",".","w","a","v">>
\* S3://b/a.wav: an upper-case scheme
LocS3Upper == <<"S","3",":","/","/","b","/","a",".","w","a","v">>
\* https://b.s3.eu.amazonaws.com/a.mp4?X-Amz-Signature=x: a presigned virtual-hosted URL
LocPresigned == <<"h","t","t","p","s",":","/","/","b",".","s","3",".","e","u",".","a","m","a","z","o","n","a","w","s",".","c","o","m","/","a",".","m","p","4","?","X","-","A","m","z","-","S","i","g","n","a","t","u","r","e","=","x">>
\* https://b.s3.amazonaws.com/a.wav?X-Amz-Signature=x: a presigned URL of the
\* form the README gives, without a region in the host
LocPresignedGlobal == <<"h","t","t","p","s",":","/","/","b",".","s","3",".","a","m","a","z","o","n","a","w","s",".","c","o","m","/","a",".","w","a","v","?","X","-","A","m","z","-","S","i","g","n","a","t","u","r","e","=","x">>
\* https://h.io/a.mp4: a generic HTTPS URL
LocHttp == <<"h","t","t","p","s",":","/","/","h",".","i","o","/","a",".","m","p","4">>
\* in.wav: an existing local audio file
LocLocalWav == <<"i","n",".","w","a","v">>
\* in.mp4: an existing local video container
LocLocalMp4 == <<"i","n",".","m","p","4">>
\* no.wav: a local path that does not exist
LocMissing == <<"n","o",".","w","a","v">>


\* report.json: the --output report file
OutPath == <<"r","e","p","o","r","t",".","j","s","o","n">>

(***************************************************************************)
(* EBU R128 standards and ComplianceChecker.checkCompliance.  Loudness     *)
(* values are in tenths of a unit (-240 is -24.0 LUFS).                    *)
(***************************************************************************)
EBU_R128_STANDARDS ==
    [integratedLoudness |-> [min |-> -240, max |-> -220, target |-> -230],
     loudnessRange |-> [max |-> 70],
     truePeak |-> [max |-> -10]]

EBU_R128_MUSIC_STANDARDS ==
    [integratedLoudness |-> [min |-> -180, max |-> -140, target |-> -160],
     loudnessRange |-> [max |-> 200],
     truePeak |-> [max |-> -10]]

\* checkCompliance with the limits themselves counted as violations
checkComplianceInclusive(standards, filePath, metrics) ==
    LET v1 == IF \/ metrics.integratedLoudness <= standards.integratedLoudness.min
                 \/ metrics.integratedLoudness >= standards.integratedLoudness.max
              THEN <<"integratedLoudness">> ELSE <<>>
        v2 == IF metrics.loudnessRange > standards.loudnessRange.max
              THEN <<"loudnessRange">> ELSE <<>>
        v3 == IF metrics.truePeakMax > standards.truePeak.max
              THEN <<"truePeak">> ELSE <<>>
        violations == v1 \o v2 \o v3
    IN  [file |-> filePath, isCompliant |-> Len(violations) = 0,
         metrics |-> metrics, violations |-> violations]

\* checkCompliance passing over a field that is 0 as not measured
checkComplianceSkippingZero(standards, filePath, metrics) ==
    LET v1 == IF /\ metrics.integratedLoudness # 0
                 /\ \/ metrics.integratedLoudness < standards.integratedLoudness.min
                    \/ metrics.integratedLoudness > standards.integratedLoudness.max
              THEN <<"integratedLoudness">> ELSE <<>>
        v2 == IF metrics.loudnessRange > standards.loudnessRange.max
              THEN <<"loudnessRange">> ELSE <<>>
        v3 == IF metrics.truePeakMax # 0 /\ metrics.truePeakMax > standards.truePeak.max
              THEN <<"truePeak">> ELSE <<>>
        violations == v1 \o v2 \o v3
    IN  [file |-> filePath, isCompliant |-> Len(violations) = 0,
         metrics |-> metrics, violations |-> violations]

checkCompliance(standards, filePath, metrics) ==
    LET v1 == IF \/ metrics.integratedLoudness < standards.integratedLoudness.min
                 \/ metrics.integratedLoudness > standards.integratedLoudness.max
              THEN <<"integratedLoudness">> ELSE <<>>
        v2 == IF metrics.loudnessRange > standards.loudnessRange.max
              THEN <<"loudnessRange">> ELSE <<>>
        v3 == IF metrics.truePeakMax > standards.truePeak.max
              THEN <<"truePeak">> ELSE <<>>
        violations == v1 \o v2 \o v3
    IN  [file |-> filePath, isCompliant |-> Len(violations) = 0,
         metrics |-> metrics, violations |-> violations]

\* The metrics a successful measurement may deliver (the parser's result).
MeasuredMetrics ==
    { [integratedLoudness |-> -230, loudnessRange |-> 50, truePeakMax |-> -20,
       momentaryMax |-> 0, shortTermMax |-> 0],
      [integratedLoudness |-> 0, loudnessRange |-> 0, truePeakMax |-> 0,
       momentaryMax |-> 0, shortTermMax |-> 0] }

(***************************************************************************)
(* State.                                                                  *)
(***************************************************************************)
\* The analyze requests; request 2 exists only under SpecConc.
Req == {1, 2}

VARIABLES
    opts,             \* options of each analyze call (AudioQCOptions)
    pc,               \* where each call stands: the operation it awaits
    localFilePath,    \* analyze's localFilePath
    isTemporaryFile,  \* analyze's isTemporaryFile
    tmpPath,          \* downloadFile's localPath, <<>> before it is chosen
    result,           \* analyze's result, <<>> before checkCompliance
    outcome,          \* how the promise returned by analyze settled
    fs,               \* the paths that exist in the file system
    now,              \* Date.now()
    spawned,          \* the child processes each call spawned, in order
    inflight,         \* the external operations of each call not yet completed
    downloadStarted,  \* a transfer was started by the call
    unlinkFailed,     \* an unlinkSync of the call's existing temp file threw
    last,             \* the completion of the call's latest external operation
    call              \* a direct call of a library function (classifier,
                      \* parser, remote probe, invoker) and its progress

vars == <<opts, pc, localFilePath, isTemporaryFile, tmpPath, result, outcome, fs,
          now, spawned, inflight, downloadStarted, unlinkFailed, last, call>>

\* no library function has been called directly
NoCall == [op |-> "none"]

Pending == [status |-> "pending", error |-> "none", value |-> <<>>]
Resolved(v) == [status |-> "resolved", error |-> "none", value |-> <<v>>]
Rejected(e) == [status |-> "rejected", error |-> e, value |-> <<>>]

NoCompletion == [op |-> "none", res |-> "none"]

\* The locators a caller may pass.
Locators == {LocS3Mp4, LocS3Wav, LocS3Upper, LocPresigned, LocPresignedGlobal, LocHttp,
             LocLocalWav, LocLocalMp4, LocMissing}

\* The files that exist before any call.
InitialFiles == {LocLocalWav, LocLocalMp4}

\* AudioQCOptions: audioStreamIndex is <<>> (undefined) or <<N>>;
\* outputFile is <<>> (undefined) or a path; s3Upload is given or not.
Options ==
    [inputFile : Locators, verbose : BOOLEAN, audioStreamIndex : {<<>>, <<0>>},
     outputFile : {<<>>, OutPath}, s3Upload : BOOLEAN]

\* The calls of the concurrent specification.
ConcOptions ==
    { [inputFile |-> LocS3Mp4, verbose |-> TRUE, audioStreamIndex |-> <<>>,
       outputFile |-> <<>>, s3Upload |-> TRUE],
      [inputFile |-> LocS3Mp4, verbose |-> FALSE, audioStreamIndex |-> <<>>,
       outputFile |-> <<>>, s3Upload |-> FALSE] }

IdleOptions ==
    [inputFile |-> LocMissing, verbose |-> FALSE, audioStreamIndex |-> <<>>,
     outputFile |-> <<>>, s3Upload |-> FALSE]

InitCommon ==
    /\ localFilePath = [r \in Req |-> opts[r].inputFile]
    /\ isTemporaryFile = [r \in Req |-> FALSE]
    /\ tmpPath = [r \in Req |-> <<>>]
    /\ result = [r \in Req |-> <<>>]
    /\ outcome = [r \in Req |-> Pending]
    /\ fs = InitialFiles
    /\ now = 0
    /\ spawned = [r \in Req |-> <<>>]
    /\ inflight = [r \in Req |-> {}]
    /\ downloadStarted = [r \in Req |-> FALSE]
    /\ unlinkFailed = [r \in Req |-> FALSE]
    /\ last = [r \in Req |-> NoCompletion]
    /\ call = NoCall

\* One analyze call.
Init ==
    /\ \E o \in Options : opts = [r \in Req |-> IF r = 1 THEN o ELSE IdleOptions]
    /\ pc = [r \in Req |-> IF r = 1 THEN "idle" ELSE "off"]
    /\ InitCommon

\* Two analyze calls sharing the staging directory.
InitConc ==
    /\ opts \in [Req -> ConcOptions]
    /\ pc = [r \in Req |-> "idle"]
    /\ InitCommon

(***************************************************************************)
(* The file system and the outcomes of the external operations.            *)
(***************************************************************************)
\* fs.unlinkSync(p) inside try/catch: the files left. ok = FALSE is an
\* unlink the operating system refuses (EPERM, EBUSY).
Unlink(files, p, ok) == IF ok THEN files \ {p} ELSE files

\* fs.unlinkSync(p) throws: the path is absent (ENOENT) or the unlink is refused
UnlinkThrows(files, p, ok) == p \notin files \/ ~ok

\* an existing file that unlinkSync could not remove
UnlinkRefused(files, p, ok) == p \in files /\ ~ok

\* How a transfer may end. A presigned URL is fetched over HTTP (fetch may
\* reject, answer non-OK, or carry no body); an object is read with
\* GetObjectCommand (send may reject, or answer without Body); in both the
\* pipeline to the write stream may fail.
DownloadResults(presigned) ==
    IF presigned THEN {"ok", "requestError", "notOk", "noBody", "pipelineError"}
    ELSE {"ok", "requestError", "noBody", "pipelineError"}

\* How an ffprobe run may end for getContainerInfo
ContainerProbeResults == {"hasAudio", "noAudio", "exitNonZero", "spawnError", "badJson"}

\* How an ffprobe run may end for getAudioStreams
ListStreamsResults == {"streams", "empty", "exitNonZero", "spawnError", "badJson"}

\* How the ffmpeg run may end
MeasureResults == {"exit0", "exitNonZero", "spawnError"}

\* How the report upload may end
UploadResults == {"ok", "fail"}

\* The Error an ffprobe promise rejects with
ProbeError(res) ==
    CASE res = "exitNonZero" -> "ProbeFailed"
      [] res = "spawnError" -> "ToolUnavailable"
      [] OTHER -> "MalformedToolOutput"

\* The Error the ffmpeg promise rejects with
MeasureError(res) ==
    IF res = "spawnError" THEN "ToolUnavailable" ELSE "MeasurementFailed"

(***************************************************************************)
(* Pieces of AudioQC.analyze.                                              *)
(***************************************************************************)
\* line 39: the input is not an S3 URL and does not exist
InputMissingNoCheck(inputFile, files) == FALSE

InputMissing(inputFile, files) == ~isS3Url(inputFile) /\ inputFile \notin files

\* lines 43-79: the first process spawned once the input is a local file
FirstOp(o, path) ==
    IF o.verbose
    THEN IF isVideoContainer(path) THEN "containerProbe" ELSE "listStreams"
    ELSE "measure"

\* The child process spawned for an operation
ProcessFor(op, path, audioStreamIndex) ==
    [tool |-> IF op = "measure" THEN "ffmpeg" ELSE "ffprobe",
     mode |-> op,
     source |-> path,
     streamMap |-> IF op = "measure" THEN audioStreamIndex ELSE <<>>]

\* line 50: the container has no audio stream
NoAudioNeverChecked(res) == FALSE

NoAudioInContainer(res) == res = "noAudio"

\* line 59: audioStreams.length === 0
NoStreamsListed(res) == res = "empty"

\* downloadFromS3 / downloadFromPresignedUrl: the files after a failed
\* transfer and its catch block. partial: the write stream had created the
\* file when the pipeline failed.
DownloadCleanupMissing(files, p, presigned, res, partial, ok) ==
    IF res = "pipelineError" /\ partial THEN files \cup {p} ELSE files

DownloadCleanup(files, p, presigned, res, partial, ok) ==
    LET created == IF res = "pipelineError" /\ partial THEN files \cup {p} ELSE files
    IN  IF presigned /\ res # "pipelineError"
        THEN created                    \* thrown before the try block
        ELSE Unlink(created, p, ok)     \* catch: try { unlinkSync } catch {}

\* the unlinkSync of the download's catch block was refused on the partial file
DownloadCleanupRefused(files, p, presigned, res, partial, ok) ==
    LET created == IF res = "pipelineError" /\ partial THEN files \cup {p} ELSE files
    IN  /\ ~(presigned /\ res # "pipelineError")
        /\ UnlinkRefused(created, p, ok)

\* lines 104-128: the catch block (error path only) and the finally block,
\* each a guarded unlinkSync inside its own try/catch
\* the cleanup without the isTemporaryFile test of lines 106 and 120
CleanupFilesAnyFile(files, temp, p, isError, ok1, ok2) ==
    Unlink(IF isError THEN Unlink(files, p, ok1) ELSE files, p, ok2)

CleanupFiles(files, temp, p, isError, ok1, ok2) ==
    IF ~temp THEN files
    ELSE Unlink(IF isError THEN Unlink(files, p, ok1) ELSE files, p, ok2)

\* some unlinkSync of the catch/finally blocks threw
CleanupThrew(files, temp, p, isError, ok1, ok2) ==
    /\ temp
    /\ \/ isError /\ UnlinkThrows(files, p, ok1)
       \/ UnlinkThrows(IF isError THEN Unlink(files, p, ok1) ELSE files, p, ok2)

\* an existing temporary file was left behind by a refused unlinkSync
CleanupRefused(files, temp, p, isError, ok1, ok2) ==
    /\ temp
    /\ \/ isError /\ UnlinkRefused(files, p, ok1)
       \/ UnlinkRefused(IF isError THEN Unlink(files, p, ok1) ELSE files, p, ok2)

\* lines 104-130: what analyze settles with after the cleanup; the cleanup
\* errors are caught and ignored
AfterCleanupPropagating(primary, threw) ==
    IF threw THEN Rejected("CleanupFailed") ELSE primary

AfterCleanup(primary, threw) == primary

(***************************************************************************)
(* The steps of AudioQC.analyze. Each action runs the code from one await  *)
(* to the next.                                                            *)
(***************************************************************************)
\* The call settles: it returns or throws.
Finish(r, op, out, files, refused) ==
    /\ pc' = [pc EXCEPT ![r] = "done"]
    /\ outcome' = [outcome EXCEPT ![r] = out]
    /\ fs' = files
    /\ inflight' = [inflight EXCEPT ![r] = @ \ {op}]
    /\ unlinkFailed' = [unlinkFailed EXCEPT ![r] = @ \/ refused]
    /\ UNCHANGED <<opts, now, spawned, downloadStarted, tmpPath>>

\* The call spawns its next child process and awaits it.
Launch(r, op, next, path) ==
    /\ pc' = [pc EXCEPT ![r] = next]
    /\ spawned' = [spawned EXCEPT
                     ![r] = Append(@, ProcessFor(next, path, opts[r].audioStreamIndex))]
    /\ inflight' = [inflight EXCEPT ![r] = (@ \ {op}) \cup {next}]
    /\ UNCHANGED <<opts, now, outcome, unlinkFailed, downloadStarted, tmpPath>>

\* line 30 without its await: the measurement is spawned on the chosen
\* path while the transfer is still running
BeginDownloadNoAwait(r, key) ==
    /\ tmpPath' = [tmpPath EXCEPT ![r] = TempPath(key, now)]
    /\ downloadStarted' = [downloadStarted EXCEPT ![r] = TRUE]
    /\ inflight' = [inflight EXCEPT ![r] = @ \cup {"download", "measure"}]
    /\ spawned' = [spawned EXCEPT
                     ![r] = Append(@, ProcessFor("measure", TempPath(key, now),
                                                 opts[r].audioStreamIndex))]
    /\ pc' = [pc EXCEPT ![r] = "download"]
    /\ UNCHANGED <<opts, now, outcome, unlinkFailed, fs, localFilePath,
                   isTemporaryFile, result, last>>

\* line 30, downloadFile lines 181-195: the temporary path is chosen from
\* Date.now() and the key's basename, the transfer starts and is awaited
BeginDownload(r, key) ==
    /\ tmpPath' = [tmpPath EXCEPT ![r] = TempPath(key, now)]
    /\ downloadStarted' = [downloadStarted EXCEPT ![r] = TRUE]
    /\ inflight' = [inflight EXCEPT ![r] = @ \cup {"download"}]
    /\ pc' = [pc EXCEPT ![r] = "download"]
    /\ UNCHANGED <<opts, now, outcome, unlinkFailed, fs, localFilePath,
                   isTemporaryFile, result, last, spawned>>

\* analyze is called: lines 18-41, and on to the first spawn for a local file
Start(r) ==
    /\ pc[r] = "idle"
    /\ UNCHANGED call
    /\ LET inputFile == opts[r].inputFile
           parsed == parseS3Url(inputFile)
       IN  IF isS3Url(inputFile)
           THEN IF parsed.ok
                THEN BeginDownload(r, parsed.key)
                ELSE \* parseS3Url throws inside downloadFile; line 37 rethrows
                     /\ Finish(r, "none", Rejected("TransferFailed"), fs, FALSE)
                     /\ UNCHANGED <<localFilePath, isTemporaryFile, result, last>>
           ELSE IF InputMissing(inputFile, fs)
           THEN /\ Finish(r, "none", Rejected("InputNotFound"), fs, FALSE)
                /\ UNCHANGED <<localFilePath, isTemporaryFile, result, last>>
           ELSE /\ Launch(r, "none", FirstOp(opts[r], inputFile), inputFile)
                /\ UNCHANGED <<fs, localFilePath, isTemporaryFile, result, last>>

\* the transfer ends: downloadFile resolves or rejects, lines 30-38
DownloadDone(r) ==
    /\ pc[r] = "download"
    /\ UNCHANGED call
    /\ LET p == tmpPath[r]
           presigned == parseS3Url(opts[r].inputFile).isPresigned
       IN  \E res \in DownloadResults(presigned), partial \in BOOLEAN, ok \in BOOLEAN :
             /\ last' = [last EXCEPT ![r] = [op |-> "download", res |-> res]]
             /\ IF res = "ok"
                THEN /\ localFilePath' = [localFilePath EXCEPT ![r] = p]
                     /\ isTemporaryFile' = [isTemporaryFile EXCEPT ![r] = TRUE]
                     /\ fs' = fs \cup {p}
                     /\ Launch(r, "download", FirstOp(opts[r], p), p)
                     /\ UNCHANGED result
                ELSE /\ Finish(r, "download", Rejected("TransferFailed"),
                               DownloadCleanup(fs, p, presigned, res, partial, ok),
                               DownloadCleanupRefused(fs, p, presigned, res, partial, ok))
                     /\ UNCHANGED <<localFilePath, isTemporaryFile, result>>

\* getContainerInfo settles: lines 47-56
ContainerProbeDone(r) ==
    /\ pc[r] = "containerProbe"
    /\ UNCHANGED call
    /\ LET p == localFilePath[r]
           temp == isTemporaryFile[r]
       IN  \E res \in ContainerProbeResults, ok \in BOOLEAN :
             /\ last' = [last EXCEPT ![r] = [op |-> "containerProbe", res |-> res]]
             /\ UNCHANGED <<localFilePath, isTemporaryFile, result>>
             /\ IF res \in {"exitNonZero", "spawnError", "badJson"}
                THEN \* the rejection leaves analyze at line 47, outside any try
                     Finish(r, "containerProbe", Rejected(ProbeError(res)), fs, FALSE)
                ELSE IF NoAudioInContainer(res)
                THEN Finish(r, "containerProbe", Rejected("NoAudioStreams"),
                            IF temp THEN Unlink(fs, p, ok) ELSE fs,
                            temp /\ UnlinkRefused(fs, p, ok))
                ELSE /\ Launch(r, "containerProbe", "listStreams", p)
                     /\ UNCHANGED fs

\* getAudioStreams settles: lines 58-73
ListStreamsDone(r) ==
    /\ pc[r] = "listStreams"
    /\ UNCHANGED call
    /\ LET p == localFilePath[r]
           temp == isTemporaryFile[r]
       IN  \E res \in ListStreamsResults, ok \in BOOLEAN :
             /\ last' = [last EXCEPT ![r] = [op |-> "listStreams", res |-> res]]
             /\ UNCHANGED <<localFilePath, isTemporaryFile, result>>
             /\ IF res \in {"exitNonZero", "spawnError", "badJson"}
                THEN \* the rejection leaves analyze at line 58, outside any try
                     Finish(r, "listStreams", Rejected(ProbeError(res)), fs, FALSE)
                ELSE IF NoStreamsListed(res)
                THEN Finish(r, "listStreams", Rejected("NoAudioStreams"),
                            IF temp THEN Unlink(fs, p, ok) ELSE fs,
                            temp /\ UnlinkRefused(fs, p, ok))
                ELSE /\ Launch(r, "listStreams", "measure", p)
                     /\ UNCHANGED fs

\* analyzeFile settles: lines 79-93, then the upload or the cleanup
MeasureDone(r) ==
    /\ pc[r] = "measure"
    /\ UNCHANGED call
    /\ LET o == opts[r]
           p == localFilePath[r]
           temp == isTemporaryFile[r]
           wants == o.outputFile # <<>>
       IN  \E res \in MeasureResults, m \in MeasuredMetrics,
              writeOk \in BOOLEAN, ok1 \in BOOLEAN, ok2 \in BOOLEAN :
             LET rep == checkCompliance(EBU_R128_STANDARDS, o.inputFile, m)
                 written == IF wants THEN fs \cup {o.outputFile} ELSE fs
             IN
             /\ last' = [last EXCEPT ![r] =
                            IF res = "exit0" /\ wants /\ ~writeOk
                            THEN [op |-> "writeReport", res |-> "fail"]
                            ELSE [op |-> "measure", res |-> res]]
             /\ UNCHANGED <<localFilePath, isTemporaryFile>>
             /\ IF res # "exit0"
                THEN /\ result' = result
                     /\ Finish(r, "measure",
                               AfterCleanup(Rejected(MeasureError(res)),
                                            CleanupThrew(fs, temp, p, TRUE, ok1, ok2)),
                               CleanupFiles(fs, temp, p, TRUE, ok1, ok2),
                               CleanupRefused(fs, temp, p, TRUE, ok1, ok2))
                ELSE IF wants /\ ~writeOk
                THEN \* fs.writeFileSync throws
                     /\ result' = [result EXCEPT ![r] = <<rep>>]
                     /\ Finish(r, "measure",
                               AfterCleanup(Rejected("ReportWriteFailed"),
                                            CleanupThrew(fs, temp, p, TRUE, ok1, ok2)),
                               CleanupFiles(fs, temp, p, TRUE, ok1, ok2),
                               CleanupRefused(fs, temp, p, TRUE, ok1, ok2))
                ELSE IF o.s3Upload
                THEN /\ result' = [result EXCEPT ![r] = <<rep>>]
                     /\ fs' = written
                     /\ pc' = [pc EXCEPT ![r] = "upload"]
                     /\ inflight' = [inflight EXCEPT ![r] = (@ \ {"measure"}) \cup {"upload"}]
                     /\ UNCHANGED <<opts, now, outcome, unlinkFailed, downloadStarted,
                                    tmpPath, spawned>>
                ELSE /\ result' = [result EXCEPT ![r] = <<rep>>]
                     /\ Finish(r, "measure",
                               AfterCleanup(Resolved(rep),
                                            CleanupThrew(written, temp, p, FALSE, ok1, ok2)),
                               CleanupFiles(written, temp, p, FALSE, ok1, ok2),
                               CleanupRefused(written, temp, p, FALSE, ok1, ok2))

\* uploadReportToS3 settles: lines 99-130
UploadDone(r) ==
    /\ pc[r] = "upload"
    /\ UNCHANGED call
    /\ LET p == localFilePath[r]
           temp == isTemporaryFile[r]
       IN  \E res \in UploadResults, ok1 \in BOOLEAN, ok2 \in BOOLEAN :
             LET isError == res # "ok"
                 primary == IF isError THEN Rejected("UploadFailed")
                            ELSE Resolved(result[r][1])
             IN
             /\ last' = [last EXCEPT ![r] = [op |-> "upload", res |-> res]]
             /\ UNCHANGED <<localFilePath, isTemporaryFile, result>>
             /\ Finish(r, "upload",
                       AfterCleanup(primary, CleanupThrew(fs, temp, p, isError, ok1, ok2)),
                       CleanupFiles(fs, temp, p, isError, ok1, ok2),
                       CleanupRefused(fs, temp, p, isError, ok1, ok2))

\* time passes
Tick ==
    /\ now < MaxClock
    /\ UNCHANGED call
    /\ now' = now + 1
    /\ UNCHANGED <<opts, pc, localFilePath, isTemporaryFile, tmpPath, result, outcome,
                   fs, spawned, inflight, downloadStarted, unlinkFailed, last>>

Next ==
    \/ \E r \in Req : Start(r)
    \/ \E r \in Req : DownloadDone(r)
    \/ \E r \in Req : ContainerProbeDone(r)
    \/ \E r \in Req : ListStreamsDone(r)
    \/ \E r \in Req : MeasureDone(r)
    \/ \E r \in Req : UploadDone(r)
    \/ Tick

\* one analyze call
Spec == Init /\ [][Next]_vars

\* two analyze calls running concurrently
SpecConc == InitConc /\ [][Next]_vars

TypeOK ==
    /\ pc \in [Req -> {"off", "idle", "download", "containerProbe", "listStreams",
                       "measure", "upload", "done"}]
    /\ \A r \in Req : outcome[r].status \in {"pending", "resolved", "rejected"}
    /\ \A r \in Req : (pc[r] = "done") <=> (outcome[r].status # "pending")
    /\ now \in 0..MaxClock

(***************************************************************************)
(* Direct calls of the library functions.  Each behaviour of SpecLib makes *)
(* one call, with its input drawn from a bounded set, and follows it to    *)
(* its result; the variables of analyze stay as Init left them.            *)
(***************************************************************************)
analyzeVars == <<opts, pc, localFilePath, isTemporaryFile, tmpPath, result, outcome,
                 fs, now, spawned, inflight, downloadStarted, unlinkFailed, last>>

\* String.prototype.toUpperCase on one character
ToUpperChar(c) ==
    IF \E i \in 1..Len(LowerChars) : LowerChars[i] = c
    THEN UpperChars[CHOOSE i \in 1..Len(LowerChars) : LowerChars[i] = c]
    ELSE c

\* the spellings that toLowerCase maps to ext
RECURSIVE CaseVariants(_)
CaseVariants(ext) ==
    IF ext = <<>> THEN {<<>>}
    ELSE {<<c>> \o t : c \in {ext[1], ToUpperChar(ext[1])},
                      t \in CaseVariants(Tail(ext))}

\* the start of a locator whose extension is in the table
Stem == <<"a",".">>

\* locators with an extension of the table, in any letter case
TableInputs == {Stem \o v : v \in UNION {CaseVariants(e.ext) : e \in STREAMABLE_FORMATS}}

\* locators with no extension or one the table does not have
UnknownInputs ==
    {<<"a",".","w","a","v">>,
      <<"a",".","m","p","3">>,
      <<"n","o","e","x","t">>,
      <<>>,
      <<"a",".">>,
      <<"h","t","t","p","s",":","/","/","h",".","i","o","/","a">>,
      <<"a",".","m","p","4","x">>,
      <<"a",".","M","P","5">>,
      <<"a",".","m","p","4",".","b","a","k">>}

\* locators with a query string, and with more than one '.'
QueryInputs ==
    {<<"h","t","t","p","s",":","/","/","x","/","y","/","v","i","d","e","o",".","M","P","4","?","X","-","A","m","z","-","S","i","g","n","a","t","u","r","e","=","a","b","c">>,
      <<"a",".","m","p","4","?","f","=","b",".","a","v","i">>,
      <<"a",".","a","v","i","?","f","=","b",".","m","p","4">>,
      <<"a","?","b",".","m","p","4">>,
      <<"a",".","b",".","m","o","v">>,
      <<"a",".","m","o","v","?","x","?","y",".","a","v","i">>,
      <<"a",".","w","a","v","?","f","=","b",".","m","p","4">>}

ClassifyInputs == TableInputs \cup UnknownInputs \cup QueryInputs

(***************************************************************************)
(* The measurement parsers.  Numbers are held in tenths, as in the         *)
(* compliance limits; the texts of the model carry at most one fractional  *)
(* digit.                                                                  *)
(***************************************************************************)
\* lines of diagnostic text a parse call may receive
MaxLines == 3

LabelInputIntegrated == <<"I","n","p","u","t"," ","I","n","t","e","g","r","a","t","e","d",":">>
LabelInputLRA == <<"I","n","p","u","t"," ","L","R","A",":">>
LabelInputTruePeak == <<"I","n","p","u","t"," ","T","r","u","e"," ","P","e","a","k",":">>
LabelIntegratedLoudness == <<"I","n","t","e","g","r","a","t","e","d"," ","l","o","u","d","n","e","s","s",":">>
LabelLoudnessRange == <<"L","o","u","d","n","e","s","s"," ","r","a","n","g","e",":">>
LabelTruePeak == <<"T","r","u","e"," ","p","e","a","k",":">>
LabelMomentaryMax == <<"M","o","m","e","n","t","a","r","y"," ","m","a","x",":">>
LabelShortTermMax == <<"S","h","o","r","t","-","t","e","r","m"," ","m","a","x",":">>
UnitLUFS == <<"L","U","F","S">>
UnitLU == <<"L","U">>
UnitDBTP == <<"d","B","T","P">>

DigitChars == <<"0","1","2","3","4","5","6","7","8","9">>

\* \d
IsDigit(c) == \E i \in 1..Len(DigitChars) : DigitChars[i] = c

\* \s
IsSpace(c) == c \in {" ", "\t", "\r"}

DigitValue(c) == (CHOOSE i \in 1..Len(DigitChars) : DigitChars[i] = c) - 1

\* how many characters from position i on are digits: what \d* consumes
DigitRun(s, i) ==
    CHOOSE n \in 0..Len(s) :
        /\ \A k \in 0..(n - 1) : i + k <= Len(s) /\ IsDigit(s[i + k])
        /\ ~(i + n <= Len(s) /\ IsDigit(s[i + n]))

\* how many characters from position i on are white space: what \s* consumes
SpaceRun(s, i) ==
    CHOOSE n \in 0..Len(s) :
        /\ \A k \in 0..(n - 1) : i + k <= Len(s) /\ IsSpace(s[i + k])
        /\ ~(i + n <= Len(s) /\ IsSpace(s[i + n]))

\* /(-?\d+\.?\d*)\s*unit/ anchored at position i (without the minus sign
\* when minus is FALSE): the captured group, or <<>> when there is no match
NumberAt(s, i, minus, unit) ==
    LET start == IF minus /\ i <= Len(s) /\ s[i] = "-" THEN i + 1 ELSE i
        whole == DigitRun(s, start)
        dot == start + whole
        frac == IF dot <= Len(s) /\ s[dot] = "." THEN dot + 1 ELSE dot
        stop == frac + DigitRun(s, frac)
    IN  IF whole > 0 /\ MatchAt(s, stop + SpaceRun(s, stop), unit)
        THEN SubSeq(s, i, stop - 1)
        ELSE <<>>

\* line.match(regex)[1]: the group of the leftmost match, <<>> for null
NumberMatch(line, minus, unit) ==
    LET hits == {i \in 1..Len(line) : NumberAt(line, i, minus, unit) # <<>>}
    IN  IF hits = {} THEN <<>>
        ELSE NumberAt(line, CHOOSE i \in hits : \A j \in hits : i <= j, minus, unit)

\* parseInt in the place of parseFloat: the fraction is dropped
parseFloatWholeOnly(s) ==
    LET neg == s[1] = "-"
        digits == IF neg THEN Tail(s) ELSE s
        whole == DigitRun(digits, 1)
        RECURSIVE Value(_)
        Value(n) == IF n = 0 THEN 0 ELSE 10 * Value(n - 1) + DigitValue(digits[n])
        magnitude == 10 * Value(whole)
    IN  IF neg THEN 0 - magnitude ELSE magnitude

\* parseFloat of a captured group, in tenths
parseFloat(s) ==
    LET neg == s[1] = "-"
        digits == IF neg THEN Tail(s) ELSE s
        whole == DigitRun(digits, 1)
        RECURSIVE Value(_)
        Value(n) == IF n = 0 THEN 0 ELSE 10 * Value(n - 1) + DigitValue(digits[n])
        tenth == IF whole + 2 <= Len(digits) THEN DigitValue(digits[whole + 2]) ELSE 0
        magnitude == 10 * Value(whole) + tenth
    IN  IF neg THEN 0 - magnitude ELSE magnitude

\* output.split('\n')
RECURSIVE SplitLines(_)
SplitLines(output) ==
    LET i == IndexOf(output, <<"\n">>)
    IN  IF i = 0 THEN <<output>>
        ELSE <<SubSeq(output, 1, i - 1)>> \o SplitLines(From(output, i + 1))

\* metrics whose loudness range starts from a sentinel
InitialMetricsUnset ==
    [integratedLoudness |-> 0, loudnessRange |-> 0 - 1, truePeakMax |-> 0,
     momentaryMax |-> 0, shortTermMax |-> 0]

\* the metrics before the first line is read: every let is 0
InitialMetrics ==
    [integratedLoudness |-> 0, loudnessRange |-> 0, truePeakMax |-> 0,
     momentaryMax |-> 0, shortTermMax |-> 0]

\* SetFromLine leaving alone a field an earlier line has set
SetFromLineOnce(m, f, line, minus, unit) ==
    LET match == NumberMatch(line, minus, unit)
    IN  IF match # <<>> /\ m[f] = 0 THEN [m EXCEPT ![f] = parseFloat(match)] ELSE m

\* m with field f set from the line when the expression matches
SetFromLine(m, f, line, minus, unit) ==
    LET match == NumberMatch(line, minus, unit)
    IN  IF match # <<>> THEN [m EXCEPT ![f] = parseFloat(match)] ELSE m

\* the loop body with the sign admitted before the loudness range
UtilsLineSignedRange(m, line) ==
    IF Includes(line, LabelInputIntegrated)
    THEN SetFromLine(m, "integratedLoudness", line, TRUE, UnitLUFS)
    ELSE IF Includes(line, LabelInputLRA)
    THEN SetFromLine(m, "loudnessRange", line, TRUE, UnitLU)
    ELSE IF Includes(line, LabelInputTruePeak)
    THEN SetFromLine(m, "truePeakMax", line, TRUE, UnitDBTP)
    ELSE m

\* one turn of the loop of FFmpegUtils.parseEBUOutput
UtilsLine(m, line) ==
    IF Includes(line, LabelInputIntegrated)
    THEN SetFromLine(m, "integratedLoudness", line, TRUE, UnitLUFS)
    ELSE IF Includes(line, LabelInputLRA)
    THEN SetFromLine(m, "loudnessRange", line, FALSE, UnitLU)
    ELSE IF Includes(line, LabelInputTruePeak)
    THEN SetFromLine(m, "truePeakMax", line, TRUE, UnitDBTP)
    ELSE m

\* the loop body without the momentary and short-term branches
AnalyzerLineThreeFields(m, line) ==
    IF Includes(line, LabelIntegratedLoudness)
    THEN SetFromLine(m, "integratedLoudness", line, TRUE, UnitLUFS)
    ELSE IF Includes(line, LabelLoudnessRange)
    THEN SetFromLine(m, "loudnessRange", line, FALSE, UnitLU)
    ELSE IF Includes(line, LabelTruePeak)
    THEN SetFromLine(m, "truePeakMax", line, TRUE, UnitDBTP)
    ELSE m

\* one turn of the loop of FFmpegAnalyzer.parseEBUOutput
AnalyzerLine(m, line) ==
    IF Includes(line, LabelIntegratedLoudness)
    THEN SetFromLine(m, "integratedLoudness", line, TRUE, UnitLUFS)
    ELSE IF Includes(line, LabelLoudnessRange)
    THEN SetFromLine(m, "loudnessRange", line, FALSE, UnitLU)
    ELSE IF Includes(line, LabelTruePeak)
    THEN SetFromLine(m, "truePeakMax", line, TRUE, UnitDBTP)
    ELSE IF Includes(line, LabelMomentaryMax)
    THEN SetFromLine(m, "momentaryMax", line, TRUE, UnitLUFS)
    ELSE IF Includes(line, LabelShortTermMax)
    THEN SetFromLine(m, "shortTermMax", line, TRUE, UnitLUFS)
    ELSE m

\* FFmpegUtils.parseEBUOutput
parseEBUOutput(output) ==
    LET lines == SplitLines(output)
        RECURSIVE Loop(_)
        Loop(n) == IF n = 0 THEN InitialMetrics ELSE UtilsLine(Loop(n - 1), lines[n])
    IN  Loop(Len(lines))

\* FFmpegAnalyzer.parseEBUOutput, and its copy in StreamingAnalyzer
analyzerParseEBUOutput(output) ==
    LET lines == SplitLines(output)
        RECURSIVE Loop(_)
        Loop(n) == IF n = 0 THEN InitialMetrics ELSE AnalyzerLine(Loop(n - 1), lines[n])
    IN  Loop(Len(lines))

\* lines that ffmpeg's loudnorm filter and its ebur128 summary print
LineInputIntegrated == <<"I","n","p","u","t"," ","I","n","t","e","g","r","a","t","e","d",":"," ","-","2","5",".","2"," ","L","U","F","S">>
LineInputIntegratedB == <<"I","n","p","u","t"," ","I","n","t","e","g","r","a","t","e","d",":"," ","-","2","3",".","0"," ","L","U","F","S">>
LineInputIntegratedInf == <<"I","n","p","u","t"," ","I","n","t","e","g","r","a","t","e","d",":"," ","-","i","n","f"," ","L","U","F","S">>
LineInputLRA == <<"I","n","p","u","t"," ","L","R","A",":"," ","8",".","1"," ","L","U">>
LineInputLRAMinus == <<"I","n","p","u","t"," ","L","R","A",":"," ","-","6",".","5"," ","L","U">>
LineInputTruePeak == <<"I","n","p","u","t"," ","T","r","u","e"," ","P","e","a","k",":"," ","-","0",".","5"," ","d","B","T","P">>
LineIntegratedLoudness == <<"I","n","t","e","g","r","a","t","e","d"," ","l","o","u","d","n","e","s","s",":"," ","-","2","5",".","2"," ","L","U","F","S">>
LineIntegratedLoudnessB == <<"I","n","t","e","g","r","a","t","e","d"," ","l","o","u","d","n","e","s","s",":"," ","-","2","3",".","0"," ","L","U","F","S">>
LineLoudnessRange == <<"L","o","u","d","n","e","s","s"," ","r","a","n","g","e",":"," ","8",".","1"," ","L","U">>
LineTruePeak == <<"T","r","u","e"," ","p","e","a","k",":"," ","-","0",".","5"," ","d","B","T","P">>
LineMomentaryMax == <<"M","o","m","e","n","t","a","r","y"," ","m","a","x",":"," ","-","2","0",".","1"," ","L","U","F","S">>
LineShortTermMax == <<"S","h","o","r","t","-","t","e","r","m"," ","m","a","x",":"," ","-","2","1",".","3"," ","L","U","F","S">>

DiagnosticLines ==
    {LineInputIntegrated,
     LineInputIntegratedB,
     LineInputIntegratedInf,
     LineInputLRA,
     LineInputLRAMinus,
     LineInputTruePeak,
     LineIntegratedLoudness,
     LineIntegratedLoudnessB,
     LineLoudnessRange,
     LineTruePeak,
     LineMomentaryMax,
     LineShortTermMax}

\* lines.join('\n')
RECURSIVE JoinLines(_)
JoinLines(ls) ==
    IF ls = <<>> THEN <<>>
    ELSE IF Len(ls) = 1 THEN ls[1]
    ELSE ls[1] \o <<"\n">> \o JoinLines(Tail(ls))

\* the diagnostic texts: up to MaxLines different lines, in any order
DiagnosticTexts ==
    {JoinLines(ls) :
        ls \in {t \in UNION {[1..n -> DiagnosticLines] : n \in 0..MaxLines} :
                  \A i, j \in 1..Len(t) : i # j => t[i] # t[j]}}

\* a caller hands a text to FFmpegUtils.parseEBUOutput
ParseUtils ==
    /\ call.op = "none"
    /\ \E output \in DiagnosticTexts :
           call' = [op |-> "parse", parser |-> "FFmpegUtils", output |-> output,
                    metrics |-> parseEBUOutput(output)]
    /\ UNCHANGED analyzeVars

\* a caller hands a text to FFmpegAnalyzer.parseEBUOutput
ParseAnalyzer ==
    /\ call.op = "none"
    /\ \E output \in DiagnosticTexts :
           call' = [op |-> "parse", parser |-> "FFmpegAnalyzer", output |-> output,
                    metrics |-> analyzerParseEBUOutput(output)]
    /\ UNCHANGED analyzeVars

\* No analyze call is made: the library functions are called directly.
InitLib ==
    /\ opts = [r \in Req |-> IdleOptions]
    /\ pc = [r \in Req |-> "off"]
    /\ InitCommon

\* a caller asks for the verdict on a locator
Classify ==
    /\ call.op = "none"
    /\ \E url \in ClassifyInputs :
           call' = [op |-> "classify", url |-> url,
                    verdict |-> getStreamingCapability(url)]
    /\ UNCHANGED analyzeVars

(***************************************************************************)
(* Child processes started by the library functions.  A promise settles    *)
(* once: resolve and reject after that are ignored.                        *)
(***************************************************************************)
\* stdout 'data' events of one probe
MaxData == 2

\* stderr 'data' events of one process
MaxChunks == 2

\* exit codes handed to 'close': 0, non-zero, null after a kill by signal,
\* the negative errno after a failed spawn
ExitOk == <<0>>
ExitFailure == <<1>>
ExitNull == <<>>
ExitSpawnFailed == <<-2>>

Unsettled ==
    [status |-> "pending", kind |-> "none", code |-> <<>>, text |-> <<>>, value |-> <<>>]

Fulfilled(v) ==
    [status |-> "resolved", kind |-> "none", code |-> <<>>, text |-> <<>>, value |-> v]

Failed(kind, code, text) ==
    [status |-> "rejected", kind |-> kind, code |-> code, text |-> text, value |-> <<>>]

\* a promise whose later resolve or reject replaced the earlier settlement
SettleOverwrite(promise, settlement) == settlement

\* resolve(...) or reject(...) on a promise
Settle(promise, settlement) ==
    IF promise.status = "pending" THEN settlement ELSE promise

\* the process is spawned, or the spawn fails and 'error' is due
SpawnPhases == {"running", "spawnFailed"}

\* 'close' can be emitted: after the exit, after a kill, after the 'error'
\* of a failed spawn
CloseCodes(phase) ==
    IF phase = "running" THEN {ExitOk, ExitFailure, ExitNull}
    ELSE IF phase = "killed" THEN {ExitNull, ExitFailure}
    ELSE IF phase = "errored" THEN {ExitSpawnFailed}
    ELSE {}

\* the urls handed to the remote probe
ProbeInputs == {LocHttp, LocPresigned}

\* resolve(code === 0) in the 'close' handler of the probe
ProbeVerdictExitOnly(code, hasOutput) == code = ExitOk

\* code === 0 && hasOutput in the 'close' handler of the probe
ProbeVerdict(code, hasOutput) == code = ExitOk /\ hasOutput

\* StreamingAnalyzer.testStreamingCapability up to the return of its promise
CapabilitySpawn ==
    /\ call.op = "none"
    /\ \E url \in ProbeInputs, phase \in SpawnPhases :
           call' = [op |-> "probe", url |-> url, phase |-> phase,
                    hasOutput |-> FALSE, dataEvents |-> 0, closeCode |-> ExitNull,
                    timedOut |-> FALSE, errored |-> FALSE, promise |-> Unsettled]
    /\ UNCHANGED analyzeVars

\* stdout.on('data') of the probe
CapabilityData ==
    /\ call.op = "probe"
    /\ call.phase \in {"running", "killed"}
    /\ call.dataEvents < MaxData
    /\ call' = [call EXCEPT !.hasOutput = TRUE, !.dataEvents = @ + 1]
    /\ UNCHANGED analyzeVars

\* the timeout of spawn's options expires: the process is sent SIGTERM
CapabilityTimeout ==
    /\ call.op = "probe"
    /\ call.phase = "running"
    /\ call' = [call EXCEPT !.phase = "killed", !.timedOut = TRUE]
    /\ UNCHANGED analyzeVars

\* on('close') of the probe
CapabilityClose ==
    /\ call.op = "probe"
    /\ \E code \in CloseCodes(call.phase) :
           call' = [call EXCEPT
                      !.phase = "closed",
                      !.closeCode = code,
                      !.promise = Settle(@, Fulfilled(ProbeVerdict(code, call.hasOutput)))]
    /\ UNCHANGED analyzeVars

\* on('error') of the probe
CapabilityError ==
    /\ call.op = "probe"
    /\ call.phase = "spawnFailed"
    /\ call' = [call EXCEPT !.phase = "errored", !.errored = TRUE,
                            !.promise = Settle(@, Fulfilled(FALSE))]
    /\ UNCHANGED analyzeVars

(***************************************************************************)
(* The measurement invoker and the stream listing.                         *)
(***************************************************************************)
ArgInput == <<"-","i">>
ArgMap == <<"-","m","a","p">>
MapPrefix == <<"0",":","a",":">>
ArgAudioFilter == <<"-","a","f">>
LoudnormFilter == <<"l","o","u","d","n","o","r","m","=","I","=","-","2","3",":","T","P","=","-","1",":","L","R","A","=","7",":","p","r","i","n","t","_","f","o","r","m","a","t","=","s","u","m","m","a","r","y">>
ArgFormat == <<"-","f">>
ArgNull == <<"n","u","l","l">>
ArgStdout == <<"-">>

\* args built with `if (audioStreamIndex)`: index 0 counts as not given
analyzeAudioLoudnessArgsTruthy(source, audioStreamIndex) ==
    <<ArgInput, source>>
    \o (IF audioStreamIndex # <<>> /\ audioStreamIndex[1] # 0
        THEN <<ArgMap, MapPrefix \o Digits(audioStreamIndex[1])>> ELSE <<>>)
    \o <<ArgAudioFilter, LoudnormFilter, ArgFormat, ArgNull, ArgStdout>>

\* the args of FFmpegUtils.analyzeAudioLoudness (and FFmpegAnalyzer.analyzeFile)
analyzeAudioLoudnessArgs(source, audioStreamIndex) ==
    <<ArgInput, source>>
    \o (IF audioStreamIndex # <<>>
        THEN <<ArgMap, MapPrefix \o Digits(audioStreamIndex[1])>> ELSE <<>>)
    \o <<ArgAudioFilter, LoudnormFilter, ArgFormat, ArgNull, ArgStdout>>

\* the args of StreamingAnalyzer.analyzeFileFromUrl
analyzeFileFromUrlArgs(url, audioStreamIndex) ==
    <<ArgInput, url>>
    \o (IF audioStreamIndex # <<>>
        THEN <<ArgMap, MapPrefix \o Digits(audioStreamIndex[1])>> ELSE <<>>)
    \o <<ArgAudioFilter, LoudnormFilter, ArgFormat, ArgNull, ArgStdout>>

\* the entry points of a measurement, each with the sources it is given
LoudnessInputs ==
    { [entry |-> "analyzeAudioLoudness", source |-> LocLocalWav],
      [entry |-> "analyzeAudioLoudness", source |-> LocHttp],
      [entry |-> "analyzeFileFromUrl", source |-> LocHttp] }

\* audioStreamIndex?: number
StreamIndexes == {<<>>, <<0>>, <<1>>}

LineNoSuchFile == <<"i","n",".","w","a","v",":"," ","N","o"," ","s","u","c","h"," ","f","i","l","e"," ","o","r"," ","d","i","r","e","c","t","o","r","y">>

\* chunks of stderr
StderrChunks ==
    {LineInputIntegrated \o <<"\n">>, LineInputLRA \o <<"\n">>, LineInputTruePeak,
     LineNoSuchFile \o <<"\n">>}

\* errorOutput = chunk
AccumulateLastOnly(text, chunk) == chunk

\* output += chunk; errorOutput += chunk
Accumulate(text, chunk) == text \o chunk

\* the measurement is started through one of its entry points
LoudnessSpawn ==
    /\ call.op = "none"
    /\ \E in \in LoudnessInputs, audioStreamIndex \in StreamIndexes, phase \in SpawnPhases :
           call' = [op |-> "measure", entry |-> in.entry, source |-> in.source,
                    audioStreamIndex |-> audioStreamIndex,
                    args |-> IF in.entry = "analyzeFileFromUrl"
                             THEN analyzeFileFromUrlArgs(in.source, audioStreamIndex)
                             ELSE analyzeAudioLoudnessArgs(in.source, audioStreamIndex),
                    phase |-> phase, output |-> <<>>, errorOutput |-> <<>>,
                    chunks |-> <<>>, closeCode |-> ExitNull, errored |-> FALSE,
                    parsed |-> FALSE, spawns |-> 1, events |-> <<>>,
                    promise |-> Unsettled]
    /\ UNCHANGED analyzeVars

\* ffmpegProcess.stderr.on('data')
LoudnessStderr ==
    /\ call.op = "measure"
    /\ call.phase = "running"
    /\ Len(call.chunks) < MaxChunks
    /\ \E chunk \in StderrChunks :
           call' = [call EXCEPT !.output = Accumulate(@, chunk),
                                !.errorOutput = Accumulate(@, chunk),
                                !.chunks = Append(@, chunk)]
    /\ UNCHANGED analyzeVars

\* ffmpegProcess.on('close')
LoudnessClose ==
    /\ call.op = "measure"
    /\ \E code \in CloseCodes(call.phase) :
           call' = IF code # ExitOk
                   THEN [call EXCEPT
                           !.phase = "closed", !.closeCode = code,
                           !.events = Append(@, "close"),
                           !.promise = Settle(@, Failed("MeasurementFailed", code,
                                                        call.errorOutput))]
                   ELSE [call EXCEPT
                           !.phase = "closed", !.closeCode = code, !.parsed = TRUE,
                           !.events = Append(@, "close"),
                           !.promise = Settle(@, Fulfilled(
                               IF call.entry = "analyzeFileFromUrl"
                               THEN analyzerParseEBUOutput(call.output)
                               ELSE parseEBUOutput(call.output)))]
    /\ UNCHANGED analyzeVars

\* ffmpegProcess.on('error')
LoudnessError ==
    /\ call.op = "measure"
    /\ call.phase = "spawnFailed"
    /\ call' = [call EXCEPT !.phase = "errored", !.errored = TRUE,
                            !.events = Append(@, "error"),
                            !.promise = Settle(@, Failed("ToolUnavailable", <<>>, <<>>))]
    /\ UNCHANGED analyzeVars

\* a stream object of ffprobe's JSON; "undefined" stands for an absent member
RawStreams ==
    { [index |-> 0, codec_name |-> "aac", channels |-> <<2>>, sample_rate |-> "48000",
       duration |-> "10.0", tags |-> [present |-> TRUE, language |-> "eng",
                                      title |-> "undefined"]],
      [index |-> 1, codec_name |-> "ac3", channels |-> <<>>, sample_rate |-> "undefined",
       duration |-> "undefined", tags |-> [present |-> FALSE, language |-> "undefined",
                                           title |-> "undefined"]] }

\* what ffprobe printed on stdout: whether JSON.parse accepts it, whether the
\* value has a streams array, and the array
StdoutDocs ==
    { [json |-> FALSE, hasStreams |-> FALSE, streams |-> <<>>],
      [json |-> TRUE, hasStreams |-> FALSE, streams |-> <<>>],
      [json |-> TRUE, hasStreams |-> TRUE, streams |-> <<>>] }
    \cup { [json |-> TRUE, hasStreams |-> TRUE, streams |-> <<s>>] : s \in RawStreams }

\* let output = '': the empty text is not JSON
EmptyOutput == [json |-> FALSE, hasStreams |-> FALSE, streams |-> <<>>]

\* the mapping of one stream in getAudioStreams
toAudioStream(stream) ==
    [index |-> stream.index,
     codecName |-> stream.codec_name,
     channels |-> IF stream.channels = <<>> THEN 0 ELSE stream.channels[1],
     sampleRate |-> IF stream.sample_rate = "undefined" THEN "unknown"
                    ELSE stream.sample_rate,
     duration |-> IF stream.duration = "undefined" THEN "unknown" ELSE stream.duration,
     language |-> IF stream.tags.present THEN stream.tags.language ELSE "undefined",
     title |-> IF stream.tags.present THEN stream.tags.title ELSE "undefined"]

\* FFmpegUtils.getAudioStreams up to the return of its promise
StreamsSpawn ==
    /\ call.op = "none"
    /\ \E source \in {LocLocalMp4, LocHttp}, phase \in SpawnPhases :
           call' = [op |-> "streams", source |-> source, phase |-> phase,
                    output |-> EmptyOutput, stdout |-> EmptyOutput, printed |-> FALSE,
                    errorOutput |-> <<>>, chunks |-> <<>>, closeCode |-> ExitNull,
                    errored |-> FALSE, spawns |-> 1, events |-> <<>>,
                    promise |-> Unsettled]
    /\ UNCHANGED analyzeVars

\* ffprobeProcess.stdout.on('data')
StreamsStdout ==
    /\ call.op = "streams"
    /\ call.phase = "running"
    /\ ~call.printed
    /\ \E doc \in StdoutDocs :
           call' = [call EXCEPT !.output = doc, !.stdout = doc, !.printed = TRUE]
    /\ UNCHANGED analyzeVars

\* ffprobeProcess.stderr.on('data')
StreamsStderr ==
    /\ call.op = "streams"
    /\ call.phase = "running"
    /\ Len(call.chunks) < MaxChunks
    /\ \E chunk \in StderrChunks :
           call' = [call EXCEPT !.errorOutput = Accumulate(@, chunk),
                                !.chunks = Append(@, chunk)]
    /\ UNCHANGED analyzeVars

\* ffprobeProcess.on('close')
StreamsClose ==
    /\ call.op = "streams"
    /\ \E code \in CloseCodes(call.phase) :
           call' = [call EXCEPT
                      !.phase = "closed", !.closeCode = code,
                      !.events = Append(@, "close"),
                      !.promise = Settle(@,
                          IF code # ExitOk
                          THEN Failed("ProbeFailed", code, call.errorOutput)
                          ELSE IF ~call.output.json \/ ~call.output.hasStreams
                          THEN Failed("MalformedToolOutput", <<>>, <<>>)
                          ELSE Fulfilled([i \in 1..Len(call.output.streams) |->
                                            toAudioStream(call.output.streams[i])]))]
    /\ UNCHANGED analyzeVars

\* ffprobeProcess.on('error')
StreamsError ==
    /\ call.op = "streams"
    /\ call.phase = "spawnFailed"
    /\ call' = [call EXCEPT !.phase = "errored", !.errored = TRUE,
                            !.events = Append(@, "error"),
                            !.promise = Settle(@, Failed("ToolUnavailable", <<>>, <<>>))]
    /\ UNCHANGED analyzeVars

(***************************************************************************)
(* Direct calls of ComplianceChecker.checkCompliance.                      *)
(***************************************************************************)
\* metrics on, next to and away from the limits of both standards, in tenths
ComplianceMetrics ==
    [integratedLoudness : {-241, -240, -230, -220, -219, -181, -180, -140, -139, 0},
     loudnessRange : {0, 70, 71, 200, 201},
     truePeakMax : {-20, -10, -9, 0},
     momentaryMax : {0},
     shortTermMax : {0}]

\* new ComplianceChecker(standards)
StandardsOf(name) ==
    IF name = "music" THEN EBU_R128_MUSIC_STANDARDS ELSE EBU_R128_STANDARDS

\* a caller checks measured metrics against a standard
Comply ==
    /\ call.op = "none"
    /\ \E name \in {"broadcast", "music"}, metrics \in ComplianceMetrics :
           call' = [op |-> "compliance", standards |-> name, metrics |-> metrics,
                    result |-> checkCompliance(StandardsOf(name), LocLocalWav, metrics)]
    /\ UNCHANGED analyzeVars

(***************************************************************************)
(* Credential resolution of the S3 downloader and uploader.  An absent     *)
(* option or environment variable is Undefined; like the empty string it   *)
(* is falsy.                                                               *)
(***************************************************************************)
Undefined == "undefined"

\* a || b
Or(a, b) == IF a \notin {Undefined, ""} THEN a ELSE b

\* mergeWithEnvironment letting the environment override the options
mergeWithEnvironmentEnvFirst(options, env) ==
    [region |-> Or(Or(env.S3_REGION, Or(env.AWS_DEFAULT_REGION, env.AWS_REGION)), options.region),
     endpoint |-> Or(options.endpoint, env.S3_ENDPOINT),
     accessKeyId |-> Or(Or(env.S3_ACCESS_KEY_ID, env.AWS_ACCESS_KEY_ID), options.accessKeyId),
     secretAccessKey |-> Or(Or(env.S3_SECRET_ACCESS_KEY, env.AWS_SECRET_ACCESS_KEY), options.secretAccessKey),
     sessionToken |-> Or(Or(env.S3_SESSION_TOKEN, env.AWS_SESSION_TOKEN), options.sessionToken),
     forcePathStyle |-> IF options.forcePathStyle # Undefined THEN options.forcePathStyle
                        ELSE IF env.S3_FORCE_PATH_STYLE = "true" THEN "true" ELSE "false",
     tempDir |-> Or(Or(options.tempDir, env.STAGING_DIR), "/tmp")]

\* S3Downloader.mergeWithEnvironment
downloaderMergeWithEnvironment(options, env) ==
    [region |-> Or(Or(options.region, env.S3_REGION), Or(env.AWS_DEFAULT_REGION, env.AWS_REGION)),
     endpoint |-> Or(options.endpoint, env.S3_ENDPOINT),
     accessKeyId |-> Or(Or(options.accessKeyId, env.S3_ACCESS_KEY_ID), env.AWS_ACCESS_KEY_ID),
     secretAccessKey |-> Or(Or(options.secretAccessKey, env.S3_SECRET_ACCESS_KEY), env.AWS_SECRET_ACCESS_KEY),
     sessionToken |-> Or(Or(options.sessionToken, env.S3_SESSION_TOKEN), env.AWS_SESSION_TOKEN),
     forcePathStyle |-> IF options.forcePathStyle # Undefined THEN options.forcePathStyle
                        ELSE IF env.S3_FORCE_PATH_STYLE = "true" THEN "true" ELSE "false",
     tempDir |-> Or(Or(options.tempDir, env.STAGING_DIR), "/tmp")]

\* S3Uploader.mergeWithEnvironment
uploaderMergeWithEnvironment(options, env) ==
    [region |-> Or(Or(options.region, env.S3_REGION), Or(env.AWS_DEFAULT_REGION, env.AWS_REGION)),
     endpoint |-> Or(options.endpoint, env.S3_ENDPOINT),
     accessKeyId |-> Or(Or(options.accessKeyId, env.S3_ACCESS_KEY_ID), env.AWS_ACCESS_KEY_ID),
     secretAccessKey |-> Or(Or(options.secretAccessKey, env.S3_SECRET_ACCESS_KEY), env.AWS_SECRET_ACCESS_KEY),
     sessionToken |-> Or(Or(options.sessionToken, env.S3_SESSION_TOKEN), env.AWS_SESSION_TOKEN),
     forcePathStyle |-> IF options.forcePathStyle # Undefined THEN options.forcePathStyle
                        ELSE IF env.S3_FORCE_PATH_STYLE = "true" THEN "true" ELSE "false"]

\* the options a caller may pass: each credential field absent, empty or given
CredentialOptions ==
    [region : {Undefined, "", "opt-region"},
     endpoint : {Undefined},
     accessKeyId : {Undefined, "", "opt-id"},
     secretAccessKey : {Undefined, "", "opt-secret"},
     sessionToken : {Undefined, "", "opt-token"},
     forcePathStyle : {Undefined},
     tempDir : {Undefined}]

\* process.env
Environments ==
    { [S3_REGION |-> Undefined, AWS_DEFAULT_REGION |-> Undefined, AWS_REGION |-> Undefined, S3_ENDPOINT |-> Undefined, S3_ACCESS_KEY_ID |-> Undefined, AWS_ACCESS_KEY_ID |-> Undefined, S3_SECRET_ACCESS_KEY |-> Undefined, AWS_SECRET_ACCESS_KEY |-> Undefined, S3_SESSION_TOKEN |-> Undefined, AWS_SESSION_TOKEN |-> Undefined, S3_FORCE_PATH_STYLE |-> Undefined, STAGING_DIR |-> Undefined],
      [S3_REGION |-> "s3-region", AWS_DEFAULT_REGION |-> Undefined, AWS_REGION |-> Undefined, S3_ENDPOINT |-> "s3-endpoint", S3_ACCESS_KEY_ID |-> "s3-id", AWS_ACCESS_KEY_ID |-> Undefined, S3_SECRET_ACCESS_KEY |-> "s3-secret", AWS_SECRET_ACCESS_KEY |-> Undefined, S3_SESSION_TOKEN |-> "s3-token", AWS_SESSION_TOKEN |-> Undefined, S3_FORCE_PATH_STYLE |-> "true", STAGING_DIR |-> Undefined],
      [S3_REGION |-> Undefined, AWS_DEFAULT_REGION |-> "aws-default-region", AWS_REGION |-> "aws-region", S3_ENDPOINT |-> Undefined, S3_ACCESS_KEY_ID |-> Undefined, AWS_ACCESS_KEY_ID |-> "aws-id", S3_SECRET_ACCESS_KEY |-> Undefined, AWS_SECRET_ACCESS_KEY |-> "aws-secret", S3_SESSION_TOKEN |-> Undefined, AWS_SESSION_TOKEN |-> "aws-token", S3_FORCE_PATH_STYLE |-> Undefined, STAGING_DIR |-> Undefined],
      [S3_REGION |-> "s3-region", AWS_DEFAULT_REGION |-> "aws-default-region", AWS_REGION |-> "aws-region", S3_ENDPOINT |-> Undefined, S3_ACCESS_KEY_ID |-> "s3-id", AWS_ACCESS_KEY_ID |-> "aws-id", S3_SECRET_ACCESS_KEY |-> "s3-secret", AWS_SECRET_ACCESS_KEY |-> "aws-secret", S3_SESSION_TOKEN |-> "s3-token", AWS_SESSION_TOKEN |-> "aws-token", S3_FORCE_PATH_STYLE |-> Undefined, STAGING_DIR |-> "/staging"],
      [S3_REGION |-> Undefined, AWS_DEFAULT_REGION |-> Undefined, AWS_REGION |-> "aws-region", S3_ENDPOINT |-> Undefined, S3_ACCESS_KEY_ID |-> "s3-id", AWS_ACCESS_KEY_ID |-> Undefined, S3_SECRET_ACCESS_KEY |-> Undefined, AWS_SECRET_ACCESS_KEY |-> "aws-secret", S3_SESSION_TOKEN |-> Undefined, AWS_SESSION_TOKEN |-> Undefined, S3_FORCE_PATH_STYLE |-> Undefined, STAGING_DIR |-> Undefined],
      [S3_REGION |-> "", AWS_DEFAULT_REGION |-> Undefined, AWS_REGION |-> "aws-region", S3_ENDPOINT |-> Undefined, S3_ACCESS_KEY_ID |-> "", AWS_ACCESS_KEY_ID |-> "aws-id", S3_SECRET_ACCESS_KEY |-> Undefined, AWS_SECRET_ACCESS_KEY |-> "aws-secret", S3_SESSION_TOKEN |-> "s3-token", AWS_SESSION_TOKEN |-> Undefined, S3_FORCE_PATH_STYLE |-> Undefined, STAGING_DIR |-> Undefined] }

\* new S3Downloader(options)
MergeDownloader ==
    /\ call.op = "none"
    /\ \E options \in CredentialOptions, env \in Environments :
           call' = [op |-> "merge", component |-> "S3Downloader", options |-> options,
                    env |-> env,
                    merged |-> downloaderMergeWithEnvironment(options, env)]
    /\ UNCHANGED analyzeVars

\* new S3Uploader(options)
MergeUploader ==
    /\ call.op = "none"
    /\ \E options \in CredentialOptions, env \in Environments :
           call' = [op |-> "merge", component |-> "S3Uploader", options |-> options,
                    env |-> env,
                    merged |-> uploaderMergeWithEnvironment(options, env)]
    /\ UNCHANGED analyzeVars

(***************************************************************************)
(* The CLI's analyze command in --list-streams mode.                       *)
(***************************************************************************)
\* the process ended through process.exit(code)
Exited(c, code) == [c EXCEPT !.phase = "exited", !.exitCode = <<code>>]

\* lines 47-68: the files when getAudioStreams has settled for a downloaded
\* file. process.exit inside the try and the catch block ends the process
\* at once, before the finally block; only a non-empty listing leaves the
\* try block normally and runs the guarded unlinkSync.
ListStreamsCleanup(files, tempFile, res, ok) ==
    IF res = "streams" /\ tempFile # <<>> THEN Unlink(files, tempFile[1], ok) ELSE files

\* the exit code of the --list-streams mode once the listing has settled
ListStreamsExit(res) == IF res = "streams" THEN 0 ELSE 1

\* the action is called with --list-streams: lines 35-48 (a downloaded
\* input) or 35-70 (a local input)
CliStart ==
    /\ call.op = "none"
    /\ \E inputFile \in Locators :
         LET remote == isS3Url(inputFile)
             parsed == parseS3Url(inputFile)
             c == [op |-> "cli", inputFile |-> inputFile, listStreams |-> TRUE,
                   isS3Url |-> remote, phase |-> "started", exitCode |-> <<>>,
                   tempFile |-> <<>>, localPath |-> <<>>, last |-> "none",
                   unlinkRefused |-> FALSE]
         IN  call' =
               IF ~remote /\ inputFile \notin fs
               THEN Exited(c, 1)                       \* lines 39-42
               ELSE IF ~remote
               THEN [c EXCEPT !.phase = "listing"]     \* line 70
               ELSE IF ~parsed.ok
               THEN Exited(c, 1)                       \* parseS3Url throws: lines 62-64
               ELSE [c EXCEPT !.phase = "download",
                              !.localPath = TempPath(parsed.key, now)]
    /\ UNCHANGED analyzeVars

\* downloadFileStatic settles: line 49, or the catch block of lines 62-64
CliDownloadDone ==
    /\ call.op = "cli"
    /\ call.phase = "download"
    /\ LET p == call.localPath
           presigned == parseS3Url(call.inputFile).isPresigned
       IN  \E res \in DownloadResults(presigned), partial \in BOOLEAN, ok \in BOOLEAN :
             IF res = "ok"
             THEN /\ fs' = fs \cup {p}
                  /\ call' = [call EXCEPT !.phase = "listing", !.tempFile = <<p>>,
                                          !.last = res]
             ELSE /\ fs' = DownloadCleanup(fs, p, presigned, res, partial, ok)
                  /\ call' = [Exited(call, 1) EXCEPT
                                !.last = res,
                                !.unlinkRefused =
                                    DownloadCleanupRefused(fs, p, presigned, res, partial, ok)]
    /\ UNCHANGED <<opts, pc, localFilePath, isTemporaryFile, tmpPath, result, outcome,
                   now, spawned, inflight, downloadStarted, unlinkFailed, last>>

\* getAudioStreams settles: lines 50-68 for a downloaded file, 70-79 for a
\* local one, then process.exit
CliStreamsDone ==
    /\ call.op = "cli"
    /\ call.phase = "listing"
    /\ \E res \in ListStreamsResults, ok \in BOOLEAN :
         /\ fs' = ListStreamsCleanup(fs, call.tempFile, res, ok)
         /\ call' = [Exited(call, ListStreamsExit(res)) EXCEPT
                       !.last = res,
                       !.unlinkRefused = /\ res = "streams"
                                         /\ call.tempFile # <<>>
                                         /\ UnlinkRefused(fs, call.tempFile[1], ok)]
    /\ UNCHANGED <<opts, pc, localFilePath, isTemporaryFile, tmpPath, result, outcome,
                   now, spawned, inflight, downloadStarted, unlinkFailed, last>>

NextLib ==
    \/ Classify
    \/ ParseUtils
    \/ ParseAnalyzer
    \/ CapabilitySpawn
    \/ CapabilityData
    \/ CapabilityTimeout
    \/ CapabilityClose
    \/ CapabilityError
    \/ LoudnessSpawn
    \/ LoudnessStderr
    \/ LoudnessClose
    \/ LoudnessError
    \/ StreamsSpawn
    \/ StreamsStdout
    \/ StreamsStderr
    \/ StreamsClose
    \/ StreamsError
    \/ Comply
    \/ MergeDownloader
    \/ MergeUploader
    \/ CliStart
    \/ CliDownloadDone
    \/ CliStreamsDone

\* one direct call of a library function
SpecLib == InitLib /\ [][NextLib]_vars

(***************************************************************************)
(* Vocabulary of the properties.                                           *)
(***************************************************************************)
\* the locator names a remote source: s3://, http:// or https://
IsRemote(url) ==
    LET l == ToLower(url)
    IN  StartsWith(l, S3Scheme) \/ AfterHttpScheme(l) > 0

Started(r) == pc[r] \notin {"off", "idle"}

Ended(r) == pc[r] = "done"

Running(r) == Started(r) /\ ~Ended(r)

SpawnedMeasurement(r) == \E i \in 1..Len(spawned[r]) : spawned[r][i].tool = "ffmpeg"

\* the errors of the local mode: probes, measurement, report
LocalModeErrors ==
    {"ProbeFailed", "ToolUnavailable", "MalformedToolOutput", "NoAudioStreams",
     "MeasurementFailed", "ReportWriteFailed", "UploadFailed"}

(***************************************************************************)
(* C1. Whenever analyze has downloaded its input to a temporary file, that *)
(* file no longer exists when analyze returns or throws, whichever step    *)
(* ends the call (here even granting a deletion the system refuses).       *)
(***************************************************************************)
C1_TempFileGoneAtExit ==
    \A r \in Req :
        (Ended(r) /\ isTemporaryFile[r]) => (tmpPath[r] \notin fs \/ unlinkFailed[r])

(***************************************************************************)
(* C2. For a remote input a failure of the remote measurement is not       *)
(* surfaced: the call falls back to a download and a local measurement,    *)
(* only a local-mode failure or a transfer failure reaches the caller, and *)
(* no temporary file exists after the call.                                *)
(***************************************************************************)
C2_RemoteFailureFallsBack ==
    \A r \in Req :
        (Ended(r) /\ IsRemote(opts[r].inputFile)) =>
            /\ outcome[r].status = "rejected" =>
                  outcome[r].error \in LocalModeErrors \cup {"TransferFailed"}
            /\ tmpPath[r] \notin fs \/ unlinkFailed[r]

(***************************************************************************)
(* C3. For a remote locator whose classifier verdict is streamable,        *)
(* analyze measures directly against the URL: no download is started, no   *)
(* temporary path is chosen, and ffmpeg is given the URL.                  *)
(***************************************************************************)
C3_StreamableMeasuredRemotely ==
    \A r \in Req :
        (Started(r) /\ IsRemote(opts[r].inputFile)
                    /\ getStreamingCapability(opts[r].inputFile).canStream) =>
            /\ ~downloadStarted[r]
            /\ tmpPath[r] = <<>>
            /\ \A i \in 1..Len(spawned[r]) :
                  spawned[r][i].tool = "ffmpeg" => spawned[r][i].source = opts[r].inputFile

C5_CleanupFailureKeepsOutcome ==
    \A r \in Req :
        (Ended(r) /\ unlinkFailed[r]) =>
            /\ outcome[r].error # "CleanupFailed"
            /\ (last[r].op = "upload" /\ last[r].res = "ok") =>
                  outcome[r] = Resolved(result[r][1])
            /\ (last[r].op = "upload" /\ last[r].res = "fail") =>
                  outcome[r] = Rejected("UploadFailed")
            /\ (last[r].op = "writeReport") =>
                  outcome[r] = Rejected("ReportWriteFailed")
            /\ (last[r].op = "measure" /\ last[r].res = "exit0") =>
                  outcome[r] = Resolved(result[r][1])
            /\ (last[r].op = "measure" /\ last[r].res # "exit0") =>
                  outcome[r] = Rejected(MeasureError(last[r].res))
            /\ (last[r].op \in {"containerProbe", "listStreams"}) =>
                  outcome[r] = Rejected("NoAudioStreams")
            /\ (last[r].op = "download") =>
                  outcome[r] = Rejected("TransferFailed")

C5_Witness ==
    \E r \in Req : /\ Ended(r) /\ unlinkFailed[r] /\ isTemporaryFile[r]
                   /\ outcome[r].status = "resolved"
                   /\ tmpPath[r] \in fs

(***************************************************************************)
(* C6. For an existing local input path analyze starts no transfer and     *)
(* goes straight to the local invocation: every process it spawns, the     *)
(* measurement included, is given exactly that path.                       *)
(***************************************************************************)
C6_LocalInputStaysLocal ==
    \A r \in Req :
        (Started(r) /\ opts[r].inputFile \in InitialFiles) =>
            /\ ~downloadStarted[r]
            /\ tmpPath[r] = <<>>
            /\ "download" \notin inflight[r]
            /\ ~isTemporaryFile[r]
            /\ Len(spawned[r]) >= 1
            /\ \A i \in 1..Len(spawned[r]) : spawned[r][i].source = opts[r].inputFile
            /\ pc[r] \in {"measure", "upload"} =>
                  spawned[r][Len(spawned[r])] =
                      [tool |-> "ffmpeg", mode |-> "measure",
                       source |-> opts[r].inputFile,
                       streamMap |-> opts[r].audioStreamIndex]

C6_Witness ==
    \E r \in Req : /\ opts[r].inputFile = LocLocalMp4
                   /\ Ended(r) /\ outcome[r].status = "resolved"
                   /\ SpawnedMeasurement(r)

(***************************************************************************)
(* C7. In verbose mode, when the container probe reports no audio stream   *)
(* or the stream listing is empty, analyze fails with the no-audio-streams *)
(* error and ffmpeg is never spawned for that request.                     *)
(***************************************************************************)
C7_NoAudioStopsBeforeMeasurement ==
    \A r \in Req :
        (\/ last[r] = [op |-> "containerProbe", res |-> "noAudio"]
         \/ last[r] = [op |-> "listStreams", res |-> "empty"]) =>
            /\ opts[r].verbose
            /\ Ended(r)
            /\ outcome[r] = Rejected("NoAudioStreams")
            /\ ~SpawnedMeasurement(r)

C7_Witness ==
    \E r \in Req : /\ last[r] = [op |-> "containerProbe", res |-> "noAudio"]
                   /\ Ended(r)

(***************************************************************************)
(* C8 as stated. When the download fails, downloadFile throws, no file     *)
(* remains at the temporary path it chose, and analyze surfaces the        *)
(* failure without spawning any measurement process.                       *)
(***************************************************************************)
C8_FailedDownloadLeavesNoFile ==
    \A r \in Req :
        (last[r].op = "download" /\ last[r].res # "ok") =>
            /\ Ended(r)
            /\ outcome[r] = Rejected("TransferFailed")
            /\ tmpPath[r] \notin fs
            /\ ~SpawnedMeasurement(r)

(***************************************************************************)
(* C8 amended. When the download fails, downloadFile throws, analyze       *)
(* surfaces the failure without spawning any process, and no file remains  *)
(* at the temporary path unless the unlinkSync of the partial file was     *)
(* itself refused (its error is swallowed).                                *)
(***************************************************************************)
C8_FailedDownloadCleansUp ==
    \A r \in Req :
        (last[r].op = "download" /\ last[r].res # "ok") =>
            /\ Ended(r)
            /\ outcome[r] = Rejected("TransferFailed")
            /\ tmpPath[r] \notin fs \/ unlinkFailed[r]
            /\ spawned[r] = <<>>

C8_Witness ==
    \E r \in Req : /\ last[r] = [op |-> "download", res |-> "pipelineError"]
                   /\ Ended(r)
                   /\ tmpPath[r] \notin fs

(***************************************************************************)
(* C9. Within one analyze call at most one external operation is in flight *)
(* at any time, and the measurement process is spawned only after the      *)
(* download has completed.                                                 *)
(***************************************************************************)
C9_OneOperationInFlight ==
    \A r \in Req :
        /\ Cardinality(inflight[r]) <= 1
        /\ (downloadStarted[r] /\ spawned[r] # <<>>) =>
              /\ "download" \notin inflight[r]
              /\ isTemporaryFile[r]
              /\ tmpPath[r] = localFilePath[r]

C9_Witness ==
    \E r \in Req : downloadStarted[r] /\ pc[r] = "measure" /\ inflight[r] = {"measure"}

(***************************************************************************)
(* C10. Two analyze requests running concurrently against the same staging *)
(* directory never obtain the same temporary file path, also when both     *)
(* download the same object key.                                           *)
(***************************************************************************)
C10_DistinctTempPaths ==
    \A r1 \in Req, r2 \in Req :
        (r1 # r2 /\ Running(r1) /\ Running(r2)
                 /\ tmpPath[r1] # <<>> /\ tmpPath[r2] # <<>>) =>
            tmpPath[r1] # tmpPath[r2]

(***************************************************************************)
(* The table of the contract: each known extension with its tier and, for  *)
(* the ones that do not stream, its reason.                                *)
(***************************************************************************)
ContractTable ==
    { [ext |-> <<"m","p","4">>, confidence |-> "high", canStream |-> TRUE, reason |-> "undefined"],
      [ext |-> <<"m","o","v">>, confidence |-> "high", canStream |-> TRUE, reason |-> "undefined"],
      [ext |-> <<"m","4","v">>, confidence |-> "high", canStream |-> TRUE, reason |-> "undefined"],
      [ext |-> <<"t","s">>, confidence |-> "high", canStream |-> TRUE, reason |-> "undefined"],
      [ext |-> <<"m","2","t","s">>, confidence |-> "high", canStream |-> TRUE, reason |-> "undefined"],
      [ext |-> <<"w","e","b","m">>, confidence |-> "high", canStream |-> TRUE, reason |-> "undefined"],
      [ext |-> <<"m","x","f">>, confidence |-> "medium", canStream |-> TRUE, reason |-> "undefined"],
      [ext |-> <<"m","k","v">>, confidence |-> "medium", canStream |-> TRUE, reason |-> "undefined"],
      [ext |-> <<"3","g","p">>, confidence |-> "medium", canStream |-> TRUE, reason |-> "undefined"],
      [ext |-> <<"a","v","i">>, confidence |-> "low", canStream |-> FALSE, reason |-> "index usually at end"],
      [ext |-> <<"w","m","v">>, confidence |-> "low", canStream |-> FALSE, reason |-> "poor streaming support"],
      [ext |-> <<"f","l","v">>, confidence |-> "low", canStream |-> FALSE, reason |-> "metadata at end"],
      [ext |-> <<"r","m">>, confidence |-> "low", canStream |-> FALSE, reason |-> "proprietary format"],
      [ext |-> <<"r","m","v","b">>, confidence |-> "low", canStream |-> FALSE, reason |-> "variable bitrate issues"] }

\* the locators of the model whose extension the contract's table lacks
ContractUnknown ==
    UnknownInputs \cup {<<"a","?","b",".","m","p","4">>, <<"a",".","w","a","v","?","f","=","b",".","m","p","4">>}

(***************************************************************************)
(* C14. getStreamingCapability returns a verdict for every locator, and    *)
(* for every extension of the table, written in any letter case, the       *)
(* verdict is the table's entry: tier, streamability and listed reason.    *)
(***************************************************************************)
C14_TableVerdictInAnyCase ==
    call.op = "classify" =>
        /\ call.verdict.canStream \in BOOLEAN
        /\ call.verdict.confidence \in {"high", "medium", "low"}
        /\ \A e \in ContractTable : \A v \in CaseVariants(e.ext) :
               call.url = Stem \o v =>
                   call.verdict = [canStream |-> e.canStream, format |-> v,
                                   confidence |-> e.confidence,
                                   fallbackReason |-> e.reason]

\* the verdict on a.AVI is avi's entry
C14_Witness ==
    /\ call.op = "classify"
    /\ call.url = <<"a",".","A","V","I">>
    /\ ~call.verdict.canStream
    /\ call.verdict.fallbackReason = "index usually at end"

(***************************************************************************)
(* C15 as stated. A locator whose extension is not in the table, or that   *)
(* has no extension, gets canStream false, confidence low and the reason   *)
(* "unknown format".                                                       *)
(***************************************************************************)
C15_UnknownFormatReason ==
    (call.op = "classify" /\ call.url \in ContractUnknown) =>
        /\ ~call.verdict.canStream
        /\ call.verdict.confidence = "low"
        /\ call.verdict.fallbackReason = "unknown format"

(***************************************************************************)
(* C15 amended. A locator whose extension is not in the table, or that has *)
(* no extension, gets canStream false, confidence low and the reason       *)
(* "Unknown format streaming capability".                                  *)
(***************************************************************************)
C15_UnknownIsNotStreamable ==
    (call.op = "classify" /\ call.url \in ContractUnknown) =>
        /\ ~call.verdict.canStream
        /\ call.verdict.confidence = "low"
        /\ call.verdict.fallbackReason = "Unknown format streaming capability"

\* a locator without an extension has been classified
C15_Witness ==
    /\ call.op = "classify"
    /\ call.url = <<"n","o","e","x","t">>
    /\ call.verdict.format = <<>>
    /\ call.verdict.confidence = "low"

(***************************************************************************)
(* C16. The verdict depends only on the part of the locator before the     *)
(* first '?': the format is the text after the last '.' of that part, kept *)
(* in its own letter case, and the table is consulted with its lower-cased *)
(* form; video.MP4?X-Amz-Signature=abc is "MP4", high, streamable.         *)
(***************************************************************************)
C16_QueryStringIgnored ==
    call.op = "classify" =>
        LET part == BeforeFirst(call.url, "?")
            dot == LastIndexOfChar(part, ".")
            known == {e \in ContractTable :
                         dot > 0 /\ e.ext = ToLower(From(part, dot + 1))}
        IN  /\ call.verdict = getStreamingCapability(part)
            /\ call.verdict.format = IF dot = 0 THEN <<>> ELSE From(part, dot + 1)
            /\ \A e \in known : /\ call.verdict.canStream = e.canStream
                                /\ call.verdict.confidence = e.confidence
            /\ (known = {}) => ~call.verdict.canStream
            /\ call.url = <<"h","t","t","p","s",":","/","/","x","/","y","/","v","i","d","e","o",".","M","P","4","?","X","-","A","m","z","-","S","i","g","n","a","t","u","r","e","=","a","b","c">> =>
                   call.verdict = [canStream |-> TRUE, format |-> <<"M","P","4">>,
                                   confidence |-> "high", fallbackReason |-> NoReason]

\* a locator whose query string holds another extension has been classified
C16_Witness ==
    /\ call.op = "classify"
    /\ call.url = <<"a",".","m","p","4","?","f","=","b",".","a","v","i">>
    /\ call.verdict.canStream
    /\ call.verdict.format = <<"m","p","4">>

(***************************************************************************)
(* Vocabulary of the parser properties: the lines of the model that carry  *)
(* a label, a number and the label's unit, with the field they are about,  *)
(* the vocabulary the label belongs to and the number in tenths (the       *)
(* loudness range is read without a sign).                                 *)
(***************************************************************************)
ValuedLines ==
    { [line |-> LineInputIntegrated, field |-> "integratedLoudness",
       vocabulary |-> "filter", value |-> -252],
      [line |-> LineInputIntegratedB, field |-> "integratedLoudness",
       vocabulary |-> "filter", value |-> -230],
      [line |-> LineInputLRA, field |-> "loudnessRange",
       vocabulary |-> "filter", value |-> 81],
      [line |-> LineInputLRAMinus, field |-> "loudnessRange",
       vocabulary |-> "filter", value |-> 65],
      [line |-> LineInputTruePeak, field |-> "truePeakMax",
       vocabulary |-> "filter", value |-> -5],
      [line |-> LineIntegratedLoudness, field |-> "integratedLoudness",
       vocabulary |-> "summary", value |-> -252],
      [line |-> LineIntegratedLoudnessB, field |-> "integratedLoudness",
       vocabulary |-> "summary", value |-> -230],
      [line |-> LineLoudnessRange, field |-> "loudnessRange",
       vocabulary |-> "summary", value |-> 81],
      [line |-> LineTruePeak, field |-> "truePeakMax",
       vocabulary |-> "summary", value |-> -5],
      [line |-> LineMomentaryMax, field |-> "momentaryMax",
       vocabulary |-> "summary", value |-> -201],
      [line |-> LineShortTermMax, field |-> "shortTermMax",
       vocabulary |-> "summary", value |-> -213] }

MetricFields ==
    {"integratedLoudness", "loudnessRange", "truePeakMax", "momentaryMax", "shortTermMax"}

\* the vocabulary a parser reads
VocabularyOf(parser) == IF parser = "FFmpegUtils" THEN "filter" ELSE "summary"

\* the valued lines of the parsed text that are about field f, in the
\* vocabulary of the parser that was called
PresentFor(f) ==
    {v \in ValuedLines : /\ v.field = f
                         /\ v.vocabulary = VocabularyOf(call.parser)
                         /\ Includes(call.output, v.line)}

\* the one of the lines S that comes first, or last, in the parsed text
EarliestOf(S) ==
    CHOOSE v \in S : \A w \in S : IndexOf(call.output, v.line) <= IndexOf(call.output, w.line)

LatestOf(S) ==
    CHOOSE v \in S : \A w \in S : IndexOf(call.output, w.line) <= IndexOf(call.output, v.line)

(***************************************************************************)
(* C17. The measurement parser returns a metrics record for every text,    *)
(* every field whose label, value and unit occur in no line of the text is *)
(* 0, and the empty text gives five zeros.                                 *)
(***************************************************************************)
C17_ParserTotalWithZeroDefaults ==
    call.op = "parse" =>
        /\ DOMAIN call.metrics = MetricFields
        /\ \A f \in MetricFields :
               /\ call.metrics[f] \in Int
               /\ (PresentFor(f) = {}) => call.metrics[f] = 0
        /\ (call.output = <<>>) => \A f \in MetricFields : call.metrics[f] = 0

\* a text whose integrated-loudness line has no number, next to a range line
C17_Witness ==
    /\ call.op = "parse"
    /\ call.parser = "FFmpegUtils"
    /\ call.output = JoinLines(<<LineInputIntegratedInf, LineInputLRA>>)
    /\ call.metrics.integratedLoudness = 0
    /\ call.metrics.loudnessRange = 81

(***************************************************************************)
(* C18. The parser of the measurement invoker accepts both vocabularies:   *)
(* "Integrated loudness: -25.2 LUFS" and "Input Integrated: -25.2 LUFS"    *)
(* both give integratedLoudness -25.2, and likewise the two range lines    *)
(* give the same loudnessRange and the two peak lines the same truePeakMax.*)
(***************************************************************************)
C18_BothVocabulariesAccepted ==
    call.op = "parse" =>
        /\ call.output \in {LineIntegratedLoudness, LineInputIntegrated} =>
               call.metrics.integratedLoudness = -252
        /\ call.output \in {LineLoudnessRange, LineInputLRA} =>
               call.metrics.loudnessRange = 81
        /\ call.output \in {LineTruePeak, LineInputTruePeak} =>
               call.metrics.truePeakMax = -5

(***************************************************************************)
(* C19. For a filter-mode text with one "Input Integrated: x LUFS" line,   *)
(* one "Input LRA: y LU" line and one "Input True Peak: z dBTP" line, in   *)
(* any order, the parser returns x, y, z, 0 and 0; the example gives       *)
(* -25.2, 8.1, -0.5, 0, 0.                                                 *)
(***************************************************************************)
C19_FilterModeTextParsed ==
    (/\ call.op = "parse"
     /\ call.parser = "FFmpegUtils"
     /\ Cardinality(PresentFor("integratedLoudness")) = 1
     /\ ~Includes(call.output, LineInputIntegratedInf)
     /\ Includes(call.output, LineInputLRA)
     /\ ~Includes(call.output, LineInputLRAMinus)
     /\ Includes(call.output, LineInputTruePeak)) =>
        call.metrics =
            [integratedLoudness |-> (CHOOSE v \in PresentFor("integratedLoudness") : TRUE).value,
             loudnessRange |-> 81, truePeakMax |-> -5,
             momentaryMax |-> 0, shortTermMax |-> 0]

\* the example text has been parsed
C19_Witness ==
    /\ call.op = "parse"
    /\ call.parser = "FFmpegUtils"
    /\ call.output = JoinLines(<<LineInputIntegrated, LineInputLRA, LineInputTruePeak>>)
    /\ call.metrics = [integratedLoudness |-> -252, loudnessRange |-> 81,
                       truePeakMax |-> -5, momentaryMax |-> 0, shortTermMax |-> 0]

(***************************************************************************)
(* C20 as stated. When several lines of the text carry the same label with *)
(* different values, the parser returns the value of the first of them.    *)
(***************************************************************************)
C20_FirstDuplicateWins ==
    call.op = "parse" =>
        \A f \in MetricFields :
            Cardinality(PresentFor(f)) > 1 =>
                call.metrics[f] = EarliestOf(PresentFor(f)).value

(***************************************************************************)
(* C20 amended. When several lines of the text carry the same label with   *)
(* different values, the parser returns the value of the last of them:     *)
(* each matching line overwrites what an earlier one set.                  *)
(***************************************************************************)
C20_LastDuplicateWins ==
    call.op = "parse" =>
        \A f \in MetricFields :
            Cardinality(PresentFor(f)) > 1 =>
                call.metrics[f] = LatestOf(PresentFor(f)).value

\* two integrated-loudness lines have been parsed, the second one's value kept
C20_Witness ==
    /\ call.op = "parse"
    /\ call.parser = "FFmpegUtils"
    /\ call.output = JoinLines(<<LineInputIntegrated, LineInputIntegratedB>>)
    /\ call.metrics.integratedLoudness = -230

(***************************************************************************)
(* C11. testStreamingCapability resolves true exactly when the probe       *)
(* process closes with exit status 0 after at least one stdout data event; *)
(* after a non-zero exit, a timeout kill or a spawn error it has resolved  *)
(* false; it never rejects.                                                *)
(***************************************************************************)
C11_ProbeTrueIffCleanExitWithOutput ==
    call.op = "probe" =>
        /\ call.promise.status # "rejected"
        /\ (call.promise.status = "resolved" /\ call.promise.value)
              <=> (call.phase = "closed" /\ call.closeCode = <<0>> /\ call.dataEvents > 0)
        /\ (call.phase = "closed" /\ (call.closeCode # <<0>> \/ call.timedOut))
              => (call.promise.status = "resolved" /\ ~call.promise.value)
        /\ call.errored => (call.promise.status = "resolved" /\ ~call.promise.value)

\* the probe printed something, exited 0 and its promise is true
C11_Witness ==
    /\ call.op = "probe"
    /\ call.phase = "closed"
    /\ call.closeCode = <<0>>
    /\ call.dataEvents > 0
    /\ call.promise.status = "resolved"
    /\ call.promise.value

\* everything a process wrote to stderr, in the order it was written
RECURSIVE Concat(_)
Concat(chunks) == IF chunks = <<>> THEN <<>> ELSE Head(chunks) \o Concat(Tail(chunks))

(***************************************************************************)
(* C12. Each failure of an invoker is its own error and never a result: a  *)
(* measurement closing with a non-zero exit code rejects with that code    *)
(* and the whole captured stderr text, and the parser is not run; a spawn  *)
(* 'error' rejects with the tool-unavailable error; a stream listing that  *)
(* exits 0 with output that is not JSON or has no streams array rejects    *)
(* with the malformed-output error.                                        *)
(***************************************************************************)
C12_InvokerFailuresAreErrors ==
    /\ (call.op = "measure" /\ call.phase = "closed" /\ ~call.errored
                            /\ call.closeCode # <<0>>) =>
           /\ call.promise.status = "rejected"
           /\ call.promise.kind = "MeasurementFailed"
           /\ call.promise.code = call.closeCode
           /\ call.promise.text = Concat(call.chunks)
           /\ ~call.parsed
    /\ (call.op \in {"measure", "streams"} /\ call.errored) =>
           /\ call.promise.status = "rejected"
           /\ call.promise.kind = "ToolUnavailable"
    /\ (call.op = "measure" /\ call.errored) => ~call.parsed
    /\ (call.op = "streams" /\ call.phase = "closed" /\ ~call.errored
                            /\ call.closeCode = <<0>>
                            /\ (~call.stdout.json \/ ~call.stdout.hasStreams)) =>
           /\ call.promise.status = "rejected"
           /\ call.promise.kind = "MalformedToolOutput"

\* a measurement wrote two chunks to stderr and exited 1
C12_Witness ==
    /\ call.op = "measure"
    /\ call.phase = "closed"
    /\ call.closeCode = <<1>>
    /\ Len(call.chunks) = 2
    /\ call.chunks[1] # call.chunks[2]
    /\ call.promise.status = "rejected"
    /\ call.promise.text = call.chunks[1] \o call.chunks[2]

(***************************************************************************)
(* C13. The argument list of a measurement has the pair '-map', '0:a:N'    *)
(* exactly when audioStreamIndex N is given, 0 included, directly after    *)
(* '-i', source and before '-af', the loudnorm filter, '-f', 'null', '-';  *)
(* without an index it has no '-map'; a local path and a URL get the same  *)
(* list.                                                                   *)
(***************************************************************************)
C13_StreamMapIffIndexGiven ==
    call.op = "measure" =>
        LET args == call.args
            given == call.audioStreamIndex # <<>>
            rest == <<<<"-","a","f">>, <<"l","o","u","d","n","o","r","m","=","I","=","-","2","3",":","T","P","=","-","1",":","L","R","A","=","7",":","p","r","i","n","t","_","f","o","r","m","a","t","=","s","u","m","m","a","r","y">>, <<"-","f">>, <<"n","u","l","l">>, <<"-">>>>
        IN  /\ args[1] = <<"-","i">>
            /\ args[2] = call.source
            /\ (\E i \in 1..Len(args) : args[i] = <<"-","m","a","p">>) <=> given
            /\ given => /\ args[3] = <<"-","m","a","p">>
                        /\ args[4] = <<"0",":","a",":">> \o Digits(call.audioStreamIndex[1])
                        /\ SubSeq(args, 5, Len(args)) = rest
            /\ ~given => SubSeq(args, 3, Len(args)) = rest

\* a measurement of a URL with audioStreamIndex 0 has been started
C13_Witness ==
    /\ call.op = "measure"
    /\ call.source = LocHttp
    /\ call.audioStreamIndex = <<0>>
    /\ call.args[3] = <<"-","m","a","p">>
    /\ call.args[4] = <<"0",":","a",":","0">>

C26_LoudnessRangeNeverNegative ==
    call.op = "parse" => call.metrics.loudnessRange >= 0

\* a range line with a minus sign has been parsed
C26_Witness ==
    /\ call.op = "parse"
    /\ call.parser = "FFmpegUtils"
    /\ Includes(call.output, LineInputLRAMinus)
    /\ ~Includes(call.output, LineInputLRA)
    /\ call.metrics.loudnessRange = 65

\* the violations of a compliance result, as a set
ViolationsOf(res) == {res.violations[i] : i \in 1..Len(res.violations)}

(***************************************************************************)
(* C22. checkCompliance reports an integrated-loudness violation exactly   *)
(* when the value is strictly below the standard's min or strictly above   *)
(* its max: under the broadcast standard -24 and -22 comply, -24.1 and     *)
(* -21.9 are violations; isCompliant is true exactly when there is no      *)
(* violation.                                                              *)
(***************************************************************************)
C22_ComplianceLimitsAreInclusive ==
    call.op = "compliance" =>
        LET value == call.metrics.integratedLoudness
            min == IF call.standards = "broadcast" THEN -240 ELSE -180
            max == IF call.standards = "broadcast" THEN -220 ELSE -140
            reported == "integratedLoudness" \in ViolationsOf(call.result)
        IN  /\ reported <=> (value < min \/ value > max)
            /\ (call.standards = "broadcast" /\ value \in {-240, -220}) => ~reported
            /\ (call.standards = "broadcast" /\ value \in {-241, -219}) => reported
            /\ call.result.isCompliant <=> (call.result.violations = <<>>)

\* integrated loudness on the lower broadcast limit, and the result compliant
C22_Witness ==
    /\ call.op = "compliance"
    /\ call.standards = "broadcast"
    /\ call.metrics.integratedLoudness = -240
    /\ call.result.isCompliant

(***************************************************************************)
(* C30. Metrics whose integrated loudness or true peak is 0, as a parser   *)
(* leaves a field it could not read, are never reported compliant: under   *)
(* the broadcast and under the music standard checkCompliance returns      *)
(* isCompliant false and at least one violation.                           *)
(***************************************************************************)
C30_UnparsedMetricsNeverCompliant ==
    (/\ call.op = "compliance"
     /\ (call.metrics.integratedLoudness = 0 \/ call.metrics.truePeakMax = 0)) =>
        /\ ~call.result.isCompliant
        /\ Len(call.result.violations) >= 1

\* only the true peak is 0, under the music standard
C30_Witness ==
    /\ call.op = "compliance"
    /\ call.standards = "music"
    /\ call.metrics.truePeakMax = 0
    /\ call.metrics.integratedLoudness = -140
    /\ call.metrics.loudnessRange = 0
    /\ call.result.violations = <<"truePeak">>

\* an option or environment variable is set: present and not empty
IsSet(v) == v # "undefined" /\ v # ""

\* option first, then the S3_* variable, then the AWS_* variable
Resolved3(option, s3, aws) ==
    IF IsSet(option) THEN option ELSE IF IsSet(s3) THEN s3 ELSE aws

(***************************************************************************)
(* C23. For access key id, secret access key, session token and region the *)
(* S3 downloader and uploader use the explicitly passed option when it is  *)
(* set, otherwise the S3_* environment variable, otherwise the AWS_* one;  *)
(* an explicit option always overrides the environment.                    *)
(***************************************************************************)
C23_OptionThenS3ThenAws ==
    call.op = "merge" =>
        LET o == call.options
            env == call.env
            m == call.merged
        IN  /\ m.accessKeyId = Resolved3(o.accessKeyId, env.S3_ACCESS_KEY_ID,
                                         env.AWS_ACCESS_KEY_ID)
            /\ m.secretAccessKey = Resolved3(o.secretAccessKey, env.S3_SECRET_ACCESS_KEY,
                                             env.AWS_SECRET_ACCESS_KEY)
            /\ m.sessionToken = Resolved3(o.sessionToken, env.S3_SESSION_TOKEN,
                                          env.AWS_SESSION_TOKEN)
            /\ m.region = Resolved3(o.region, env.S3_REGION,
                                    IF IsSet(env.AWS_DEFAULT_REGION)
                                    THEN env.AWS_DEFAULT_REGION ELSE env.AWS_REGION)
            /\ \A f \in {"accessKeyId", "secretAccessKey", "sessionToken", "region"} :
                   IsSet(o[f]) => m[f] = o[f]

\* an explicit key id wins over both variables while the secret comes from S3_*
C23_Witness ==
    /\ call.op = "merge"
    /\ call.component = "S3Uploader"
    /\ call.options.accessKeyId = "opt-id"
    /\ call.options.secretAccessKey = "undefined"
    /\ call.env.S3_ACCESS_KEY_ID = "s3-id"
    /\ call.env.AWS_ACCESS_KEY_ID = "aws-id"
    /\ call.merged.accessKeyId = "opt-id"
    /\ call.merged.secretAccessKey = "s3-secret"

(***************************************************************************)
(* C24. A presigned URL of the documented form                             *)
(* https://<bucket>.s3.amazonaws.com/<key>?X-Amz-Signature=... is taken    *)
(* for an S3 locator by isS3Url and parsed by parseS3Url into the first    *)
(* host label as bucket, the path without its leading slash as key and     *)
(* isPresigned true, so analyze downloads it and does not reject it as a   *)
(* local file that does not exist.                                         *)
(***************************************************************************)
C24_DocumentedPresignedUrlDownloaded ==
    \A r \in Req :
        (opts[r].inputFile = LocPresignedGlobal /\ Ended(r)) =>
            /\ parseS3Url(opts[r].inputFile) =
                  [ok |-> TRUE, bucket |-> <<"b">>, key |-> <<"a", ".", "w", "a", "v">>,
                   isPresigned |-> TRUE]
            /\ downloadStarted[r]
            /\ outcome[r].error # "InputNotFound"

(***************************************************************************)
(* C29. Every locator isS3Url accepts is parsed by parseS3Url without an   *)
(* error into a non-empty bucket and a key, an upper-case S3:// scheme     *)
(* included, so analyze never fails at URL parsing for an input it took    *)
(* for S3.                                                                 *)
(***************************************************************************)
C29_AcceptedLocatorsParse ==
    \A r \in Req :
        (Ended(r) /\ isS3Url(opts[r].inputFile)) =>
            /\ parseS3Url(opts[r].inputFile).ok
            /\ parseS3Url(opts[r].inputFile).bucket # <<>>
            /\ downloadStarted[r]

C28_FirstEventSettlesOnce ==
    call.op \in {"measure", "streams"} =>
        /\ call.spawns = 1
        /\ call.events = <<>> <=> call.promise = Unsettled
        /\ (call.events # <<>> /\ call.events[1] = "error") =>
               call.promise = Failed("ToolUnavailable", <<>>, <<>>)
        /\ (call.events # <<>> /\ call.events[1] = "close") =>
               /\ call.events = <<"close">>
               /\ call.promise.kind # "ToolUnavailable"
               /\ call.promise.status = "resolved" <=> call.closeCode = <<0>> /\
                      (call.op = "streams" => call.stdout.json /\ call.stdout.hasStreams)
               /\ call.promise.status = "rejected" => call.promise.code =
                      (IF call.closeCode = <<0>> THEN <<>> ELSE call.closeCode)

\* a spawn failed: 'error' rejected the promise, then 'close' arrived
C28_Witness ==
    /\ call.op \in {"measure", "streams"}
    /\ call.events = <<"error", "close">>
    /\ call.closeCode = <<-2>>
    /\ call.promise = Failed("ToolUnavailable", <<>>, <<>>)

(***************************************************************************)
(* C25. In the CLI's --list-streams mode for an S3 input, the file         *)
(* downloaded to list the streams no longer exists when the process exits, *)
(* on every path after a successful download: streams listed (exit 0), no  *)
(* audio streams found (exit 1), stream listing failed (exit 1) (here even *)
(* granting a deletion the system refuses).                                *)
(***************************************************************************)
C25_ListStreamsDownloadGoneAtExit ==
    (call.op = "cli" /\ call.phase = "exited" /\ call.tempFile # <<>>) =>
        /\ call.tempFile[1] \notin fs \/ call.unlinkRefused
        /\ call.exitCode = (IF call.last = "streams" THEN <<0>> ELSE <<1>>)

=============================================================================
